---------------------------- MODULE Spec2Model ----------------------------
(***************************************************************************)
(* A model of the drv2605 driver (src/src/lib.rs): the driver's operations *)
(* as sequences of I2C bus transactions against a register file, one step  *)
(* per bus transaction.  The transport may fail any transaction; the       *)
(* device clears the GO bit on its own.                                    *)
(***************************************************************************)
EXTENDS Integers, Sequences, FiniteSets, TLC

VARIABLES
    dev,    \* the handle's DEV type parameter: "Drv2605Erm" or "Drv2605Lra"
    regs,   \* the device's register file: register address -> byte
    regs0,  \* the register file when the caller's program started
    pc,     \* the driver's position: "idle" or the name of its next step
    stack,  \* continuations of the functions that called the running one
    arg,    \* the running function's argument (a tuple of bytes)
    tmp,    \* the running function's local: the byte it read last
    log,    \* the bus transactions of the caller's current program
    hist,   \* the calls of the caller's current program, with their results
    todo,   \* the calls the caller makes next, one right after the other
    other   \* a second actor with a handle of its own on the same chip

vars == <<dev, regs, regs0, pc, stack, arg, tmp, log, hist, todo, other>>

---------------------------------------------------------------------------
(* Bounds of the model *)

\* GO reads that find GO still set which one diagnostics() call records
MaxPolls == 2

\* calls in a row that a caller's program of one operation makes
MaxCalls == 2

---------------------------------------------------------------------------
(* Register map and constants of the driver *)

ADDRESS == 90

Status == 0
Mode == 1
RealTimePlaybackInput == 2
Register3 == 3
WaveformSequence0 == 4
WaveformSequence7 == 11
Go == 12
OverdriveTimeOffset == 13
SustainTimeOffsetPositive == 14
SustainTimeOffsetNegative == 15
BrakeTimeOffset == 16
RatedVoltage == 22
OverdriveClampVoltage == 23
AutoCalibrationCompensationResult == 24
AutoCalibrationBackEMFResult == 25
FeedbackControl == 26
Control1 == 27
Control2 == 28
Control3 == 29
Control4 == 30

SeqAddrs == WaveformSequence0..WaveformSequence7

OffsetAddrs == OverdriveTimeOffset..BrakeTimeOffset

RegAddrs ==
    {Status, Mode, RealTimePlaybackInput, Register3, Go, FeedbackControl, Control3}
        \cup SeqAddrs \cup OffsetAddrs
        \cup {RatedVoltage, OverdriveClampVoltage, AutoCalibrationCompensationResult,
              AutoCalibrationBackEMFResult, Control1, Control2, Control4}

Byte == 0..255

\* the catalog of ROM effects, `effect as u8`
Effects == 1..123

Devs == {"Drv2605Erm", "Drv2605Lra"}

\* DrvConfig::ID of the handle's device type
ID(d) == CASE d = "Drv2605Erm" -> 3 [] d = "Drv2605Lra" -> 3

---------------------------------------------------------------------------
(* bitfield! accessors: a field msb..lsb of a u8 *)

BitRange(b, msb, lsb) == (b \div (2 ^ lsb)) % (2 ^ (msb - lsb + 1))

SetBitRange(b, msb, lsb, v) ==
    b - BitRange(b, msb, lsb) * (2 ^ lsb) + (v % (2 ^ (msb - lsb + 1))) * (2 ^ lsb)

Bit(b, i) == BitRange(b, i, i) = 1

SetBit(b, i, v) == SetBitRange(b, i, i, IF v THEN 1 ELSE 0)

\* the device id taken from a field one bit short: 6, 5
device_id_2bits(b) == BitRange(b, 6, 5)

\* the result taken from the over-temperature flag, bit 1
diagnostic_result_over_temp(b) == Bit(b, 1)

\* StatusReg
device_id(b) == BitRange(b, 7, 5)
diagnostic_result(b) == Bit(b, 3)

\* the standby bit set in a fresh ModeReg(0), as reset does, not in the byte read
ModeReg_set_standby_fresh(b, v) == SetBit(0, 6, v)

\* ModeReg
standby(b) == Bit(b, 6)
mode(b) == BitRange(b, 2, 0)
ModeReg_set_standby(b, v) == SetBit(b, 6, v)
ModeReg_set_mode(b, v) == SetBitRange(b, 2, 0, v)

\* the GO bit set in a fresh GoReg(0), not in the byte read
GoReg_set_go_fresh(b, v) == SetBit(0, 0, v)

\* GoReg
go(b) == Bit(b, 0)
GoReg_set_go(b, v) == SetBit(b, 0, v)

\* the motor-type bit set in a fresh FeedbackControlReg(0), not in the byte read
set_n_erm_lra_fresh(b, v) == SetBit(0, 7, v)

\* FeedbackControlReg
n_erm_lra(b) == Bit(b, 7)
set_n_erm_lra(b, v) == SetBit(b, 7, v)

\* the hi-Z bit set in a fresh RegisterThree(0), not in the byte read
set_hi_z_fresh(b, v) == SetBit(0, 4, v)

\* the library selection taken one bit too wide: 3, 0
set_library_selection_wide(b, v) == SetBitRange(b, 3, 0, v)

\* RegisterThree
set_hi_z(b, v) == SetBit(b, 4, v)
set_library_selection(b, v) == SetBitRange(b, 2, 0, v)

\* Control3Reg
set_erm_open_loop(b, v) == SetBit(b, 5, v)
set_lra_open_loop(b, v) == SetBit(b, 0, v)

\* the OTP status taken from the neighbouring OTP_PROGRAM bit, bit 1
otp_status_program_bit(b) == Bit(b, 1)

\* Control4Reg
otp_status(b) == Bit(b, 2)

\* the effect built as new_wait_time builds a wait: WAIT set
new_effect_wait(e) == SetBitRange(SetBit(0, 7, TRUE), 6, 0, e)

\* WaveformReg
new_stop == SetBitRange(SetBit(0, 7, FALSE), 6, 0, 0)
new_effect(e) == SetBitRange(SetBit(0, 7, FALSE), 6, 0, e)


---------------------------------------------------------------------------
(* Effect, and its conversion to the byte of a sequence slot *)

\* an Effect: Stop, Delays(n) with n a u8, or the i-th of the 123 variants
\* declared after them
Stop == <<0, 0>>
Delays(n) == <<1, n>>
Catalog(i) == <<2, i>>

CatalogSize == 123

EffectsAll ==
    {Stop} \cup {Delays(n) : n \in Byte} \cup {Catalog(i) : i \in 1..CatalogSize}

\* the match arms of the 123 variants, in the order of their declaration
EffectArms ==
    <<1, 2, 3, 4, 5, 6, 7, 8, 9, 10, 11, 12, 13, 14, 15, 16,
      17, 18, 19, 20, 21, 22, 23, 24, 25, 26, 27, 28, 29, 30, 31, 32,
      33, 34, 35, 36, 37, 38, 39, 40, 41, 42, 43, 44, 45, 46, 47, 48,
      49, 50, 51, 52, 53, 54, 55, 56, 57, 58, 59, 60, 61, 62, 63, 64,
      65, 66, 67, 68, 69, 70, 71, 72, 73, 74, 75, 76, 77, 78, 79, 80,
      81, 82, 83, 84, 85, 86, 87, 88, 89, 90, 91, 92, 93, 94, 95, 96,
      97, 98, 99, 100, 101, 102, 103, 104, 105, 106, 107, 108, 109, 110, 111, 112,
      113, 114, 115, 116, 117, 118, 119, 120, 121, 122, 123>>

\* Delays(n) encoded with no WAIT bit: n alone
u8_from_no_wait(e) ==
    CASE e[1] = 1 -> e[2]
      [] e[1] = 0 -> 0
      [] e[1] = 2 -> EffectArms[e[2]]

\* impl From<Effect> for u8: Delays(n) => n | 0x80, Stop => 0, the arms
u8_from(e) ==
    CASE e[1] = 1 -> SetBit(e[2], 7, TRUE)
      [] e[1] = 0 -> 0
      [] e[1] = 2 -> EffectArms[e[2]]

\* the wait built with set_wait(false), as new_effect builds an effect
new_wait_time_no_wait(n) == SetBitRange(SetBit(0, 7, FALSE), 6, 0, n)

\* the wait clamped to the 127 the field can hold
new_wait_time_clamped(n) ==
    SetBitRange(SetBit(0, 7, TRUE), 6, 0, IF n > 127 THEN 127 ELSE n)

\* WaveformReg::new_wait_time, the wait in tens of ms a u8
new_wait_time(n) == SetBitRange(SetBit(0, 7, TRUE), 6, 0, n)

---------------------------------------------------------------------------
(* Results, calls and transport outcomes *)

\* the transport's error values E
BusErrors == {"E1", "E2"}

Outcomes == {"ok"} \cup BusErrors

Running == [kind |-> "running", err |-> "none"]
OkResult == [kind |-> "Ok", err |-> "none"]
ConnectionError(e) == [kind |-> "ConnectionError", err |-> e]
DeviceIdError == [kind |-> "DeviceIdError", err |-> "none"]
DeviceDiagError == [kind |-> "DeviceDiagError", err |-> "none"]
OTPNotProgrammed == [kind |-> "OTPNotProgrammed", err |-> "none"]
\* automatic calibration did not converge
CalibrationError == [kind |-> "CalibrationError", err |-> "none"]

\* the byte a conversion returns
U8(v) == [kind |-> "u8", err |-> "none", val |-> v]

Call(op, a) == [op |-> op, arg |-> a]

Frame(label, a) == [pc |-> label, arg |-> a]

---------------------------------------------------------------------------
(* The device behind the transport *)

\* what the waveform sequencer plays when GO fires: the identifiers from
\* register 0x04 on, up to the first zero or all eight
Played(r) ==
    LET stops == {i \in 1..8 : r[WaveformSequence0 + i - 1] = 0}
        n == IF stops = {} THEN 8
             ELSE (CHOOSE i \in stops : \A j \in stops : i <= j) - 1
    IN  [i \in 1..n |-> r[WaveformSequence0 + i - 1]]

\* a register read: the Status flags in bits 3..1 clear upon read
DevRead(r, reg) ==
    IF reg = Status
    THEN [r EXCEPT ![Status] = SetBitRange(r[Status], 3, 1, 0)]
    ELSE r

\* a write of <<address, v1, v2, ...>>: consecutive registers from address
DevWrite(r, bytes) ==
    [a \in RegAddrs |->
        IF a - bytes[1] + 2 \in 2..Len(bytes) THEN bytes[a - bytes[1] + 2] ELSE r[a]]

\* the hardware ends the process GO fired: GO self-clears, and the routine
\* leaves its result d in the DIAG_RESULT flag
DeviceClearGo ==
    /\ go(regs[Go])
    /\ \E d \in BOOLEAN :
        regs' = [regs EXCEPT ![Go] = SetBit(@, 0, FALSE),
                             ![Status] = SetBit(@, 3, d)]
    /\ UNCHANGED <<dev, regs0, other, pc, stack, arg, tmp, log, hist, todo>>

---------------------------------------------------------------------------
(* The transport: embedded-hal Write and WriteRead, with outcome o *)

\* the transaction sent to the address shifted left, as an 8-bit write address
EntryShifted(kind, bytes, rd, o) ==
    [kind |-> kind, addr |-> 2 * ADDRESS, bytes |-> bytes, rd |-> rd, res |-> o,
     call |-> Len(hist)]

Entry(kind, bytes, rd, o) ==
    [kind |-> kind, addr |-> ADDRESS, bytes |-> bytes, rd |-> rd, res |-> o,
     call |-> Len(hist)]

\* self.i2c.write(ADDRESS, bytes)
I2cWrite(bytes, o) ==
    /\ log' = Append(log, Entry("write", bytes, <<>>, o))
    /\ regs' = IF o = "ok" THEN DevWrite(regs, bytes) ELSE regs

\* self.i2c.write_read(ADDRESS, &[register], &mut buf)
I2cWriteRead(reg, o) ==
    /\ log' = Append(log, Entry("write_read", <<reg>>,
                                IF o = "ok" THEN <<regs[reg]>> ELSE <<>>, o))
    /\ regs' = IF o = "ok" THEN DevRead(regs, reg) ELSE regs

\* every transaction of L succeeded
AllOk(L) == \A i \in 1..Len(L) : L[i].res = "ok"

---------------------------------------------------------------------------
(* Control flow of the driver *)

\* move on inside the running function
Goto(label) ==
    /\ pc' = label
    /\ UNCHANGED <<stack, arg, hist, todo>>

\* call f(a), to continue at `ret` when it returns Ok
CallFn(label, a, ret) ==
    /\ pc' = label
    /\ arg' = a
    /\ stack' = <<ret>> \o stack
    /\ UNCHANGED <<hist, todo>>

\* the running function returns r: Ok resumes its caller, an error goes
\* through every caller's `?` to the caller of the operation
Return(r) ==
    IF r.kind = "Ok" /\ stack # <<>>
    THEN /\ pc' = Head(stack).pc
         /\ arg' = Head(stack).arg
         /\ stack' = Tail(stack)
         /\ UNCHANGED <<hist, todo>>
    ELSE /\ pc' = "idle"
         /\ arg' = <<>>
         /\ stack' = <<>>
         /\ hist' = [hist EXCEPT ![Len(hist)].res = r]
         /\ todo' = IF r.kind = "Ok" THEN todo ELSE <<>>

\* a `?` left out: the failure is dropped and the function goes on
PropagateDropped(o, onOk) == onOk

\* the `?` (or the tail position) after a transaction with outcome o: a
\* failure is the operation's ConnectionError, else the function goes on
Propagate(o, onOk) ==
    IF o = "ok" THEN onOk ELSE Return(ConnectionError(o))

\* Drv2605::write(register, value), then onOk
Write(bytes, onOk) ==
    /\ \E o \in Outcomes : I2cWrite(bytes, o) /\ Propagate(o, onOk)
    /\ UNCHANGED <<dev, regs0, other, tmp>>

\* let tmp = Drv2605::read(register)?, then on to `next`
Read(reg, next) ==
    /\ \E o \in Outcomes :
        /\ I2cWriteRead(reg, o)
        /\ tmp' = IF o = "ok" THEN regs[reg] ELSE tmp
        /\ Propagate(o, Goto(next))
    /\ UNCHANGED <<dev, regs0, other>>

---------------------------------------------------------------------------
(* The operations, one action per bus transaction *)

Erm == dev = "Drv2605Erm"
Lra == dev = "Drv2605Lra"

\* check_id: get_status()?, then the comparison with DEV::ID
CheckId ==
    /\ pc = "CheckId"
    /\ \E o \in Outcomes :
        /\ I2cWriteRead(Status, o)
        /\ tmp' = IF o = "ok" THEN regs[Status] ELSE tmp
        /\ Propagate(o, IF device_id(regs[Status]) # ID(dev)
                        THEN Return(DeviceIdError)
                        ELSE Return(OkResult))
    /\ UNCHANGED <<dev, regs0, other>>

\* config: let mut feedback = FeedbackControlReg(self.read(FeedbackControl)?)
ConfigFeedbackRead ==
    /\ pc = "ConfigFeedbackRead"
    /\ Read(FeedbackControl, "ConfigFeedbackWrite")

\* config with its last two steps in the other order: standby, then diagnostics
ConfigFeedbackWriteStandbyFirst ==
    /\ pc = "ConfigFeedbackWrite"
    /\ Write(<<FeedbackControl, set_n_erm_lra(tmp, Lra)>>,
              CallFn("SetStandbyRead", <<1>>, Frame("DiagnosticsModeRead", <<>>)))

\* config: feedback.set_n_erm_lra(..); self.write(FeedbackControl, feedback.0)?;
\* then self.diagnostics()?; and last self.set_standby(true)
ConfigFeedbackWrite ==
    /\ pc = "ConfigFeedbackWrite"
    /\ Write(<<FeedbackControl, set_n_erm_lra(tmp, Lra)>>,
              CallFn("DiagnosticsModeRead", <<>>, Frame("SetStandbyRead", <<1>>)))

\* diagnostics: let mut mode = ModeReg(self.read(Register::Mode)?)
DiagnosticsModeRead ==
    /\ pc = "DiagnosticsModeRead"
    /\ Read(Mode, "DiagnosticsModeWrite")

\* the byte diagnostics writes to Mode: set_standby(false); set_mode(1)
DiagnosticsMode(m) == ModeReg_set_mode(ModeReg_set_standby(m, FALSE), 1)

\* diagnostics: self.write(Register::Mode, mode.0)?; then self.set_go(true)?
DiagnosticsModeWrite ==
    /\ pc = "DiagnosticsModeWrite"
    /\ Write(<<Mode, DiagnosticsMode(tmp)>>,
              CallFn("SetGoRead", <<1>>, Frame("DiagnosticsPoll", <<>>)))

\* GO reads of the poll loop in the log, all of which found GO set: the
\* transactions since set_go's write
Polls ==
    LET own == {i \in 1..Len(log) : log[i].call = Len(hist)}
        w == CHOOSE i \in own :
                /\ log[i].kind = "write"
                /\ \A j \in own : j > i => log[j].kind # "write"
    IN  Cardinality({j \in own : j > w})

\* the poll loop with GO tested the other way round: while !go() {}
DiagnosticsPollNegated ==
    /\ pc = "DiagnosticsPoll"
    /\ \E o \in Outcomes :
        /\ IF o = "ok" /\ ~go(regs[Go]) /\ Polls >= MaxPolls
           THEN UNCHANGED <<log, regs>>
           ELSE I2cWriteRead(Go, o)
        /\ tmp' = IF o = "ok" THEN regs[Go] ELSE tmp
        /\ Propagate(o, IF ~go(regs[Go])
                        THEN Goto("DiagnosticsPoll")
                        ELSE Goto("DiagnosticsStatus"))
    /\ UNCHANGED <<dev, regs0, other>>

\* the poll loop given up after MaxPolls reads that found GO set
DiagnosticsPollLimited ==
    /\ pc = "DiagnosticsPoll"
    /\ \E o \in Outcomes :
        /\ I2cWriteRead(Go, o)
        /\ tmp' = IF o = "ok" THEN regs[Go] ELSE tmp
        /\ Propagate(o, IF go(regs[Go]) /\ Polls + 1 < MaxPolls
                        THEN Goto("DiagnosticsPoll")
                        ELSE Goto("DiagnosticsStatus"))
    /\ UNCHANGED <<dev, regs0, other>>

\* diagnostics: while GoReg(self.read(Register::Go)?).go() {}
\* The loop has no limit.  The log keeps the first MaxPolls reads in a row
\* that found GO set; a further such read leaves every variable as it is.
DiagnosticsPoll ==
    /\ pc = "DiagnosticsPoll"
    /\ \E o \in Outcomes :
        /\ IF o = "ok" /\ go(regs[Go]) /\ Polls >= MaxPolls
           THEN UNCHANGED <<log, regs>>
           ELSE I2cWriteRead(Go, o)
        /\ tmp' = IF o = "ok" THEN regs[Go] ELSE tmp
        /\ Propagate(o, IF go(regs[Go])
                        THEN Goto("DiagnosticsPoll")
                        ELSE Goto("DiagnosticsStatus"))
    /\ UNCHANGED <<dev, regs0, other>>

\* diagnostics: let reg = self.get_status()?; then the DIAG_RESULT test
DiagnosticsStatus ==
    /\ pc = "DiagnosticsStatus"
    /\ \E o \in Outcomes :
        /\ I2cWriteRead(Status, o)
        /\ tmp' = IF o = "ok" THEN regs[Status] ELSE tmp
        /\ Propagate(o, IF diagnostic_result(regs[Status])
                        THEN Return(DeviceDiagError)
                        ELSE Return(OkResult))
    /\ UNCHANGED <<dev, regs0, other>>

\* set_standby: let mut mode = ModeReg(self.read(Register::Mode)?)
SetStandbyRead ==
    /\ pc = "SetStandbyRead"
    /\ Read(Mode, "SetStandbyWrite")

\* set_standby that also selects mode 0
SetStandbyWriteModeZero ==
    /\ pc = "SetStandbyWrite"
    /\ Write(<<Mode, ModeReg_set_mode(ModeReg_set_standby(tmp, arg[1] = 1), 0)>>,
              Return(OkResult))

\* set_standby: mode.set_standby(standby); self.write(Register::Mode, mode.0)
SetStandbyWrite ==
    /\ pc = "SetStandbyWrite"
    /\ Write(<<Mode, ModeReg_set_standby(tmp, arg[1] = 1)>>,
              Return(OkResult))

\* set_go: let mut register = GoReg(self.read(Register::Go)?)
SetGoRead ==
    /\ pc = "SetGoRead"
    /\ Read(Go, "SetGoWrite")

\* set_go: register.set_go(go); self.write(Register::Go, register.0)
SetGoWrite ==
    /\ pc = "SetGoWrite"
    /\ Write(<<Go, GoReg_set_go(tmp, arg[1] = 1)>>, Return(OkResult))

\* the buffer with the first two slots in the other order
WaveformBufSwapped(w) ==
    <<WaveformSequence0, w[2], w[1], w[3], w[4], w[5], w[6], w[7], w[8]>>

\* the buffer one slot short
WaveformBufShort(w) ==
    <<WaveformSequence0, w[1], w[2], w[3], w[4], w[5], w[6], w[7]>>

\* the buffer set_waveform sends: the base address, then the eight slots
WaveformBuf(w) ==
    <<WaveformSequence0, w[1], w[2], w[3], w[4], w[5], w[6], w[7], w[8]>>

\* set_waveform: self.i2c.write(ADDRESS, &buf)
SetWaveform ==
    /\ pc = "SetWaveform"
    /\ Write(WaveformBuf(arg), Return(OkResult))

\* the buffer without the stop
SingleEffectBufNoStop(e) == <<WaveformSequence0, new_effect(e)>>

\* the buffer set_single_effect sends: the base address, the effect, a stop
SingleEffectBuf(e) == <<WaveformSequence0, new_effect(e), new_stop>>

\* set_single_effect: self.i2c.write(ADDRESS, &buf)
SetSingleEffect ==
    /\ pc = "SetSingleEffect"
    /\ Write(SingleEffectBuf(arg[1]), Return(OkResult))

\* a getter: self.read(register).map(..), the value read is the result
Get(reg) ==
    /\ \E o \in Outcomes :
        /\ I2cWriteRead(reg, o)
        /\ tmp' = IF o = "ok" THEN regs[reg] ELSE tmp
        /\ Propagate(o, Return(OkResult))
    /\ UNCHANGED <<dev, regs0, other>>

\* get_status: self.read(Register::Status).map(StatusReg)
GetStatus ==
    /\ pc = "GetStatus"
    /\ Get(Status)

\* get_mode: self.read(Register::Mode).map(ModeReg)
GetMode ==
    /\ pc = "GetMode"
    /\ Get(Mode)

\* the byte with the standby bit set too, as in the register's default 0x40
ResetModeStandby == SetBit(SetBit(0, 7, TRUE), 6, TRUE)

\* the byte reset writes: ModeReg(0) with dev_reset set
ResetMode == SetBit(0, 7, TRUE)

\* reset: self.write(Register::Mode, mode.0)
Reset ==
    /\ pc = "Reset"
    /\ Write(<<Mode, ResetMode>>, Return(OkResult))

\* the magnitude of an i8 in place of its bits: value.unsigned_abs()
AsU8Magnitude(v) == IF v < 0 THEN 0 - v ELSE v

\* `value as u8` of an i8
AsU8(v) == v % 256

\* set_realtime_playback_input: self.write(RealTimePlaybackInput, value as u8)
SetRealtimePlaybackInput ==
    /\ pc = "SetRealtimePlaybackInput"
    /\ Write(<<RealTimePlaybackInput, AsU8(arg[1])>>,
              Return(OkResult))

\* set_overdrive_time_offset: self.write(OverdriveTimeOffset, value as u8)
SetOverdriveTimeOffset ==
    /\ pc = "SetOverdriveTimeOffset"
    /\ Write(<<OverdriveTimeOffset, AsU8(arg[1])>>,
              Return(OkResult))

\* set_sustain_time_offset_positive
SetSustainTimeOffsetPositive ==
    /\ pc = "SetSustainTimeOffsetPositive"
    /\ Write(<<SustainTimeOffsetPositive, AsU8(arg[1])>>,
              Return(OkResult))

\* set_sustain_time_offset_negative
SetSustainTimeOffsetNegative ==
    /\ pc = "SetSustainTimeOffsetNegative"
    /\ Write(<<SustainTimeOffsetNegative, AsU8(arg[1])>>,
              Return(OkResult))

\* set_brake_time_offset
SetBrakeTimeOffset ==
    /\ pc = "SetBrakeTimeOffset"
    /\ Write(<<BrakeTimeOffset, AsU8(arg[1])>>, Return(OkResult))

\* set_high_impedance_state: RegisterThree(self.read(Register::Register3)?)
SetHighImpedanceStateRead ==
    /\ pc = "SetHighImpedanceStateRead"
    /\ Read(Register3, "SetHighImpedanceStateWrite")

\* set_high_impedance_state: register.set_hi_z(value); self.write(Register3, ..)
SetHighImpedanceStateWrite ==
    /\ pc = "SetHighImpedanceStateWrite"
    /\ Write(<<Register3, set_hi_z(tmp, arg[1] = 1)>>,
              Return(OkResult))

\* set_library: RegisterThree(self.read(Register::Register3)?)
SetLibraryRead ==
    /\ pc = "SetLibraryRead"
    /\ Read(Register3, "SetLibraryWrite")

\* set_library: register.set_library_selection(value as u8); self.write(..)
SetLibraryWrite ==
    /\ pc = "SetLibraryWrite"
    /\ Write(<<Register3, set_library_selection(tmp, arg[1])>>,
              Return(OkResult))

\* set_open_loop: Control3Reg(self.read(Register::Control3)?)
SetOpenLoopRead ==
    /\ pc = "SetOpenLoopRead"
    /\ Read(Control3, "SetOpenLoopWrite")

\* the open-loop bits of both motor types set
OpenLoopBoth(c) == set_lra_open_loop(set_erm_open_loop(c, TRUE), TRUE)

\* the byte set_open_loop writes back: the open-loop bit of the handle's motor
OpenLoop(c) == IF Erm THEN set_erm_open_loop(c, TRUE) ELSE set_lra_open_loop(c, TRUE)

\* set_open_loop: self.write(Register::Control3, control3.0)
SetOpenLoopWrite ==
    /\ pc = "SetOpenLoopWrite"
    /\ Write(<<Control3, OpenLoop(tmp)>>, Return(OkResult))

---------------------------------------------------------------------------
(* The calibration engine: the strategy a construction applies between the
   identity check and set_standby(true) *)

\* factory (OTP): read the one-time-programmable status bit; fail with
\* OTPNotProgrammed if unset; no register is written
OtpStatusRead ==
    /\ pc = "OtpStatusRead"
    /\ \E o \in Outcomes :
        /\ I2cWriteRead(Control4, o)
        /\ tmp' = IF o = "ok" THEN regs[Control4] ELSE tmp
        /\ Propagate(o, IF otp_status(regs[Control4])
                        THEN Return(OkResult)
                        ELSE Return(OTPNotProgrammed))
    /\ UNCHANGED <<dev, regs0, other>>

\* the registers of the input parameters, in the order they are written:
\* feedback control, control 1, 2 and 4, rated voltage, overdrive clamp
CalibrationRegs ==
    <<FeedbackControl, Control1, Control2, Control4, RatedVoltage,
      OverdriveClampVoltage>>

\* the registers of the load parameters: compensation, back-EMF, and the
\* gain field's register
LoadRegs ==
    <<AutoCalibrationCompensationResult, AutoCalibrationBackEMFResult,
      FeedbackControl>>

\* automatic: write all required input parameters into their registers;
\* arg is <<i, p1, .., p6>>, the i-th parameter next
CalibrateParamWrite ==
    /\ pc = "CalibrateParamWrite"
    /\ Write(<<CalibrationRegs[arg[1]], arg[arg[1] + 1]>>,
              IF arg[1] < Len(CalibrationRegs)
              THEN /\ arg' = [arg EXCEPT ![1] = @ + 1]
                   /\ UNCHANGED <<pc, stack, hist, todo>>
              ELSE Goto("CalibrateModeRead"))

\* automatic: set mode to Auto-Calibration, the Mode register read
CalibrateModeRead ==
    /\ pc = "CalibrateModeRead"
    /\ Read(Mode, "CalibrateModeWrite")

\* automatic: the mode code 7 written into the Mode register, then assert GO
CalibrateModeWrite ==
    /\ pc = "CalibrateModeWrite"
    /\ Write(<<Mode, ModeReg_set_mode(tmp, 7)>>,
              CallFn("SetGoRead", <<1>>, Frame("CalibratePoll", <<>>)))

\* automatic: busy-poll the GO bit until the device clears it.  The log keeps
\* the first MaxPolls reads in a row that found GO set, as in DiagnosticsPoll
CalibratePoll ==
    /\ pc = "CalibratePoll"
    /\ \E o \in Outcomes :
        /\ IF o = "ok" /\ go(regs[Go]) /\ Polls >= MaxPolls
           THEN UNCHANGED <<log, regs>>
           ELSE I2cWriteRead(Go, o)
        /\ tmp' = IF o = "ok" THEN regs[Go] ELSE tmp
        /\ Propagate(o, IF go(regs[Go])
                        THEN Goto("CalibratePoll")
                        ELSE Goto("CalibrateStatus"))
    /\ UNCHANGED <<dev, regs0, other>>

\* automatic: read the Status register's diagnostic-result flag; a set flag
\* fails the engine, else the load parameters are read back
CalibrateStatus ==
    /\ pc = "CalibrateStatus"
    /\ \E o \in Outcomes :
        /\ I2cWriteRead(Status, o)
        /\ tmp' = IF o = "ok" THEN regs[Status] ELSE tmp
        /\ Propagate(o, IF diagnostic_result(regs[Status])
                        THEN Return(CalibrationError)
                        ELSE /\ pc' = "CalibrateLoadRead"
                             /\ arg' = <<1>>
                             /\ UNCHANGED <<stack, hist, todo>>)
    /\ UNCHANGED <<dev, regs0, other>>

\* automatic, on success: read back the load parameters; arg is <<i>>, the
\* i-th of them next
CalibrateLoadRead ==
    /\ pc = "CalibrateLoadRead"
    /\ \E o \in Outcomes :
        /\ I2cWriteRead(LoadRegs[arg[1]], o)
        /\ tmp' = IF o = "ok" THEN regs[LoadRegs[arg[1]]] ELSE tmp
        /\ Propagate(o, IF arg[1] < Len(LoadRegs)
                        THEN /\ arg' = <<arg[1] + 1>>
                             /\ UNCHANGED <<pc, stack, hist, todo>>
                        ELSE Return(OkResult))
    /\ UNCHANGED <<dev, regs0, other>>

---------------------------------------------------------------------------
(* The caller *)

\* where each operation starts
EntryPc(op) ==
    CASE op = "config" -> "CheckId"
      [] op = "diagnostics" -> "DiagnosticsModeRead"
      [] op = "set_standby" -> "SetStandbyRead"
      [] op = "set_go" -> "SetGoRead"
      [] op = "set_waveform" -> "SetWaveform"
      [] op = "set_single_effect" -> "SetSingleEffect"
      [] op = "get_status" -> "GetStatus"
      [] op = "get_mode" -> "GetMode"
      [] op = "reset" -> "Reset"
      [] op = "set_realtime_playback_input" -> "SetRealtimePlaybackInput"
      [] op = "set_overdrive_time_offset" -> "SetOverdriveTimeOffset"
      [] op = "set_sustain_time_offset_positive" -> "SetSustainTimeOffsetPositive"
      [] op = "set_sustain_time_offset_negative" -> "SetSustainTimeOffsetNegative"
      [] op = "set_brake_time_offset" -> "SetBrakeTimeOffset"
      [] op = "set_high_impedance_state" -> "SetHighImpedanceStateRead"
      [] op = "set_library" -> "SetLibraryRead"
      [] op = "set_open_loop" -> "SetOpenLoopRead"
      [] op = "construct_otp" -> "CheckId"
      [] op = "construct_auto" -> "CheckId"

\* config starts in check_id, which returns into config
\* a construction starts there too: verify identity, then the calibration
\* strategy, then set_standby(true)
EntryStack(op, a) ==
    CASE op = "config" -> <<Frame("ConfigFeedbackRead", <<>>)>>
      [] op = "construct_otp" ->
            <<Frame("OtpStatusRead", <<>>), Frame("SetStandbyRead", <<1>>)>>
      [] op = "construct_auto" ->
            <<Frame("CalibrateParamWrite", <<1>> \o a), Frame("SetStandbyRead", <<1>>)>>
      [] OTHER -> <<>>

\* the operations only a Drv2605Erm handle has
ErmOnly == {"set_library", "set_waveform", "set_single_effect"}

\* the conversions: they run to their end at once and touch no register
Conversions == {"u8_from", "new_wait_time"}

\* the caller makes a conversion, which returns v
Convert(v) ==
    /\ hist' = Append(hist, [op |-> Head(todo).op, arg |-> Head(todo).arg,
                             res |-> U8(v)])
    /\ todo' = Tail(todo)
    /\ UNCHANGED <<dev, regs, regs0, pc, stack, arg, tmp, log, other>>

\* let byte: u8 = effect.into()
U8From ==
    /\ pc = "idle"
    /\ todo # <<>>
    /\ Head(todo).op = "u8_from"
    /\ Convert(u8_from(Head(todo).arg))

\* WaveformReg::new_wait_time(tens_of_ms).0
NewWaitTime ==
    /\ pc = "idle"
    /\ todo # <<>>
    /\ Head(todo).op = "new_wait_time"
    /\ Convert(new_wait_time(Head(todo).arg[1]))

\* the caller makes its next call
Begin ==
    /\ pc = "idle"
    /\ todo # <<>>
    /\ Head(todo).op \notin Conversions
    /\ hist' = Append(hist, [op |-> Head(todo).op, arg |-> Head(todo).arg,
                             res |-> Running])
    /\ pc' = EntryPc(Head(todo).op)
    /\ stack' = EntryStack(Head(todo).op, Head(todo).arg)
    /\ arg' = Head(todo).arg
    /\ todo' = Tail(todo)
    /\ UNCHANGED <<dev, regs, regs0, tmp, log, other>>

---------------------------------------------------------------------------
(* A second actor: another handle on the same chip, making one call of a
   read-modify-write method while the first actor runs *)

\* the second actor makes no call
OtherIdle == [pc |-> "idle", op |-> "none", arg |-> <<>>, tmp |-> 0]

\* the second actor is about to make the call op(a)
OtherCall(op, a) == [pc |-> "read", op |-> op, arg |-> a, tmp |-> 0]

\* the register its method reads and writes back
OtherReg ==
    CASE other.op = "set_standby" -> Mode
      [] other.op = "set_high_impedance_state" -> Register3
      [] other.op = "set_library" -> Register3

\* the byte its method writes back, from the byte b it read
OtherByte(b) ==
    CASE other.op = "set_standby" -> ModeReg_set_standby(b, other.arg[1] = 1)
      [] other.op = "set_high_impedance_state" -> set_hi_z(b, other.arg[1] = 1)
      [] other.op = "set_library" -> set_library_selection(b, other.arg[1])

\* its transactions are in the log as call 0
OtherEntry(kind, bytes, rd) == [Entry(kind, bytes, rd, "ok") EXCEPT !.call = 0]

\* its method's first statement: let mut r = ..Reg(self.read(register)?)
OtherRead ==
    /\ other.pc = "read"
    /\ log' = Append(log, OtherEntry("write_read", <<OtherReg>>, <<regs[OtherReg]>>))
    /\ regs' = DevRead(regs, OtherReg)
    /\ other' = [other EXCEPT !.pc = "write", !.tmp = regs[OtherReg]]
    /\ UNCHANGED <<dev, regs0, pc, stack, arg, tmp, hist, todo>>

\* its method's last statements: r.set_..(value); self.write(register, r.0)
OtherWrite ==
    /\ other.pc = "write"
    /\ log' = Append(log, OtherEntry("write", <<OtherReg, OtherByte(other.tmp)>>, <<>>))
    /\ regs' = DevWrite(regs, <<OtherReg, OtherByte(other.tmp)>>)
    /\ other' = [other EXCEPT !.pc = "done"]
    /\ UNCHANGED <<dev, regs0, pc, stack, arg, tmp, hist, todo>>

---------------------------------------------------------------------------
(* Inputs: the device's registers at the start, and the caller's program *)

\* a register file: the registers the operations read, the rest a pattern
Device(st, md, gv, fb, sq) ==
    [a \in RegAddrs |->
        CASE a = Status -> st
          [] a = Mode -> md
          [] a = Go -> gv
          [] a = FeedbackControl -> fb
          [] a \in SeqAddrs -> sq[a - WaveformSequence0 + 1]
          [] OTHER -> 165]

StatusSome == {96, 104, 111, 239}
ModeSome == {0, 64, 71, 189}
GoSome == {0, 1, 254, 255}
FeedbackSome == {54, 182}
SeqSome == {<<1, 0, 0, 0, 0, 0, 0, 0>>, <<5, 133, 6, 7, 8, 9, 10, 11>>}
I8Some == {-128, -1, 0, 127}
I8 == -128..127
EffectsSome == {1, 64, 123}
WaveformsSome == {<<1, 2, 3, 4, 5, 6, 7, 8>>, <<14, 138, 0, 0, 0, 0, 0, 0>>}

\* every slot a stop, an effect or a wait
SlotBytes == {0, 47, 131}
Waveforms == [1..8 -> SlotBytes]

\* the sequence registers vary in InitSingleEffect and InitWaveform, whose
\* operations alone reach them
DevicesSome ==
    {Device(st, md, gv, fb, <<1, 0, 0, 0, 0, 0, 0, 0>>) :
        st \in StatusSome, md \in ModeSome, gv \in GoSome, fb \in FeedbackSome}

Flag == {0, 1}

CallsSome ==
    {Call(op, <<>>) : op \in {"config", "diagnostics", "get_status", "get_mode",
                              "reset", "set_open_loop"}}
    \cup {Call(op, <<b>>) :
            op \in {"set_standby", "set_go", "set_high_impedance_state"}, b \in Flag}
    \cup {Call(op, <<v>>) :
            op \in {"set_realtime_playback_input", "set_overdrive_time_offset",
                    "set_sustain_time_offset_positive",
                    "set_sustain_time_offset_negative", "set_brake_time_offset"},
            v \in I8Some}
    \cup {Call("set_library", <<l>>) : l \in 0..7}
    \cup {Call("set_waveform", w) : w \in WaveformsSome}
    \cup {Call("set_single_effect", <<e>>) : e \in EffectsSome}

\* the programs of up to n calls in a row, each from S
Programs(S, n) == UNION {[1..k -> S] : k \in 1..n}

\* any one operation, on a few devices
InitAnyCall ==
    /\ dev \in Devs
    /\ regs \in DevicesSome
    /\ todo \in {<<c>> : c \in {c \in CallsSome : c.op \in ErmOnly => Erm}}

\* set_standby calls in a row, on every Mode byte
InitStandby ==
    /\ dev \in Devs
    /\ regs \in {Device(96, md, 0, 54, <<1, 0, 0, 0, 0, 0, 0, 0>>) : md \in Byte}
    /\ todo \in Programs({Call("set_standby", <<b>>) : b \in Flag}, MaxCalls)

\* set_go, on every Go byte
InitGo ==
    /\ dev \in Devs
    /\ regs \in {Device(96, 0, gv, 54, <<1, 0, 0, 0, 0, 0, 0, 0>>) : gv \in Byte}
    /\ todo \in {<<Call("set_go", <<b>>)>> : b \in Flag}

\* config, on every Status byte
InitConfig ==
    /\ dev \in Devs
    /\ regs \in {Device(st, md, 0, fb, <<1, 0, 0, 0, 0, 0, 0, 0>>) :
                    st \in Byte, md \in {64, 189}, fb \in FeedbackSome}
    /\ todo = <<Call("config", <<>>)>>

\* set_single_effect of every effect, alone and followed by set_go(true)
InitSingleEffect ==
    /\ dev = "Drv2605Erm"
    /\ regs \in {Device(96, 0, gv, 54, sq) : gv \in GoSome, sq \in SeqSome}
    /\ todo \in {<<Call("set_single_effect", <<e>>)>> : e \in Effects}
         \cup {<<Call("set_single_effect", <<e>>), Call("set_go", <<1>>)>> :
                e \in Effects}

\* set_waveform of every waveform over SlotBytes
InitWaveform ==
    /\ dev = "Drv2605Erm"
    /\ regs \in {Device(96, 0, 0, 54, sq) : sq \in SeqSome}
    /\ todo \in {<<Call("set_waveform", w)>> : w \in Waveforms}

\* set_open_loop among other calls, on every Control3 byte
InitOpenLoop ==
    /\ dev \in Devs
    /\ regs \in {[Device(96, 0, 0, 54, <<1, 0, 0, 0, 0, 0, 0, 0>>) EXCEPT ![Control3] = c] :
                    c \in Byte}
    /\ todo \in Programs({Call("set_open_loop", <<>>), Call("reset", <<>>),
                          Call("set_high_impedance_state", <<1>>)}, MaxCalls)

\* diagnostics, on every Status byte
InitDiagnostics ==
    /\ dev \in Devs
    /\ regs \in {Device(st, 71, 0, 54, <<1, 0, 0, 0, 0, 0, 0, 0>>) : st \in Byte}
    /\ todo = <<Call("diagnostics", <<>>)>>

\* the conversion of every Effect, and of every wait
InitConvert ==
    /\ dev \in Devs
    /\ regs = Device(96, 0, 0, 54, <<1, 0, 0, 0, 0, 0, 0, 0>>)
    /\ todo \in {<<Call("u8_from", e)>> : e \in EffectsAll}
                \cup {<<Call("new_wait_time", <<n>>)>> : n \in Byte}

\* set_realtime_playback_input of every i8, whatever the mode
InitRealtime ==
    /\ dev \in Devs
    /\ regs \in {Device(96, md, 0, 54, <<1, 0, 0, 0, 0, 0, 0, 0>>) : md \in ModeSome}
    /\ todo \in {<<Call("set_realtime_playback_input", <<v>>)>> : v \in I8}

\* the calls a caller may make once config() has returned: every operation
\* but reset, one set of arguments each
CallsAfterConfig ==
    {c \in CallsSome :
        /\ c.op # "reset"
        /\ c.arg \in {<<>>, <<0>>, <<1>>, <<-1>>, <<64>>, <<14, 138, 0, 0, 0, 0, 0, 0>>}}

\* the calls made in pairs once config() has returned
CallsAfterConfigPairs ==
    {Call("set_standby", <<0>>), Call("set_go", <<1>>), Call("set_open_loop", <<>>),
     Call("set_high_impedance_state", <<1>>)}

FeedbackMore == {0, 54, 127, 182, 255}

\* config(), then other calls on the same handle
InitAfterConfig ==
    /\ dev \in Devs
    /\ regs \in {Device(96, 64, 0, fb, <<1, 0, 0, 0, 0, 0, 0, 0>>) : fb \in FeedbackMore}
    /\ todo \in {<<Call("config", <<>>)>> \o p :
                    p \in Programs({c \in CallsAfterConfig : c.op \in ErmOnly => Erm}, 1)
                          \cup Programs(CallsAfterConfigPairs, MaxCalls)}

\* reset, on every Mode byte
InitReset ==
    /\ dev \in Devs
    /\ regs \in {Device(96, md, 0, 54, <<1, 0, 0, 0, 0, 0, 0, 0>>) : md \in Byte}
    /\ todo = <<Call("reset", <<>>)>>

\* the operations that leave the mode field alone, a call or two of each
ModeKeepers ==
    {Call("set_standby", <<0>>), Call("set_standby", <<1>>), Call("set_go", <<1>>),
     Call("set_waveform", <<14, 138, 0, 0, 0, 0, 0, 0>>),
     Call("set_single_effect", <<1>>), Call("set_library", <<6>>)}

\* config(), then calls that leave the mode field alone
InitModeKept ==
    /\ dev \in Devs
    /\ regs \in {Device(96, md, 0, 54, <<1, 0, 0, 0, 0, 0, 0, 0>>) : md \in {64, 189}}
    /\ todo \in {<<Call("config", <<>>)>> \o p :
                    p \in Programs({c \in ModeKeepers : c.op \in ErmOnly => Erm}, MaxCalls)}

\* the calls that share register 0x03
Register3Sharers ==
    {Call("set_library", <<l>>) : l \in {0, 3, 6}}
        \cup {Call("set_high_impedance_state", <<b>>) : b \in Flag}

Register3More == {0, 16, 23, 165, 232, 255}

\* set_library and set_high_impedance_state one after the other, in any order
InitRegister3 ==
    /\ dev = "Drv2605Erm"
    /\ regs \in {[Device(96, 0, 0, 54, <<1, 0, 0, 0, 0, 0, 0, 0>>) EXCEPT ![Register3] = r3] :
                    r3 \in Register3More}
    /\ todo \in Programs(Register3Sharers, MaxCalls + 1)

\* the wait that differs from n in bit 7 alone
Wrapped(n) == (n + 128) % 256

\* both encoders on a delay n and on the delay that differs in bit 7, every n
InitDelays ==
    /\ dev \in Devs
    /\ regs = Device(96, 0, 0, 54, <<1, 0, 0, 0, 0, 0, 0, 0>>)
    /\ todo \in {<<Call("new_wait_time", <<n>>), Call("u8_from", Delays(n)),
                    Call("new_wait_time", <<Wrapped(n)>>),
                    Call("u8_from", Delays(Wrapped(n)))>> : n \in Byte}

Control4Some == {0, 2, 4, 165, 251, 255}

\* construction with the factory calibration, on some Control4 bytes
InitOtp ==
    /\ dev \in Devs
    /\ regs \in {[Device(st, md, 0, 54, <<1, 0, 0, 0, 0, 0, 0, 0>>) EXCEPT ![Control4] = c] :
                    st \in StatusSome, md \in {0, 64}, c \in Control4Some}
    /\ todo = <<Call("construct_otp", <<>>)>>

\* input parameters of an automatic calibration, in the order of CalibrationRegs
CalibrationParamsSome == {<<54, 147, 245, 32, 62, 140>>, <<182, 19, 117, 48, 80, 137>>}

\* construction with the automatic calibration
InitAuto ==
    /\ dev \in Devs
    /\ regs \in {Device(st, md, 0, 54, <<1, 0, 0, 0, 0, 0, 0, 0>>) :
                    st \in {96, 104}, md \in {0, 64}}
    /\ todo \in {<<Call("construct_auto", p)>> : p \in CalibrationParamsSome}

\* a constructor that probes the device: it reads Status
NewProbing ==
    /\ pc = "idle"
    /\ stack = <<>>
    /\ arg = <<>>
    /\ tmp = 0
    /\ hist = <<>>
    /\ log = <<[kind |-> "write_read", addr |-> ADDRESS, bytes |-> <<Status>>,
                rd |-> <<0>>, res |-> "ok", call |-> 0]>>

\* Drv2605::new(i2c): the handle holds the transport and a marker; no call
\* is running and none was made
New ==
    /\ pc = "idle"
    /\ stack = <<>>
    /\ arg = <<>>
    /\ tmp = 0
    /\ hist = <<>>
    /\ log = <<>>

Init ==
    /\ New
    /\ \/ InitAnyCall
       \/ InitStandby
       \/ InitGo
       \/ InitConfig
       \/ InitSingleEffect
       \/ InitWaveform
       \/ InitOpenLoop
       \/ InitDiagnostics
       \/ InitConvert
       \/ InitRealtime
       \/ InitOtp
       \/ InitAuto
       \/ InitAfterConfig
       \/ InitReset
       \/ InitModeKept
       \/ InitRegister3
       \/ InitDelays
    /\ regs0 = regs
    /\ other = OtherIdle

Next ==
    \/ Begin
    \/ U8From
    \/ NewWaitTime
    \/ CheckId
    \/ ConfigFeedbackRead
    \/ ConfigFeedbackWrite
    \/ DiagnosticsModeRead
    \/ DiagnosticsModeWrite
    \/ DiagnosticsPoll
    \/ DiagnosticsStatus
    \/ SetStandbyRead
    \/ SetStandbyWrite
    \/ SetGoRead
    \/ SetGoWrite
    \/ SetWaveform
    \/ SetSingleEffect
    \/ GetStatus
    \/ GetMode
    \/ Reset
    \/ SetRealtimePlaybackInput
    \/ SetOverdriveTimeOffset
    \/ SetSustainTimeOffsetPositive
    \/ SetSustainTimeOffsetNegative
    \/ SetBrakeTimeOffset
    \/ SetHighImpedanceStateRead
    \/ SetHighImpedanceStateWrite
    \/ SetLibraryRead
    \/ SetLibraryWrite
    \/ SetOpenLoopRead
    \/ SetOpenLoopWrite
    \/ OtpStatusRead
    \/ CalibrateParamWrite
    \/ CalibrateModeRead
    \/ CalibrateModeWrite
    \/ CalibratePoll
    \/ CalibrateStatus
    \/ CalibrateLoadRead
    \/ DeviceClearGo

Spec == Init /\ [][Next]_vars

\* the calls on the Mode register that two actors make together
ModeCalls == {Call("set_standby", <<b>>) : b \in Flag}

\* the calls on register 0x03 that two actors make together
Register3Calls ==
    {Call("set_high_impedance_state", <<b>>) : b \in Flag}
        \cup (IF Erm THEN {Call("set_library", <<l>>) : l \in {0, 1, 6}} ELSE {})

Register3Some == {0, 16, 165, 255}

\* two actors, each making one call on the same register; the first one's
\* may be diagnostics(), which updates Mode
InitRace ==
    /\ New
    /\ dev \in Devs
    /\ regs \in {[Device(96, md, 0, 54, <<1, 0, 0, 0, 0, 0, 0, 0>>) EXCEPT ![Register3] = r3] :
                    md \in ModeSome, r3 \in Register3Some}
    /\ \E c \in ModeCalls \cup {Call("diagnostics", <<>>)} \cup Register3Calls :
        /\ todo = <<c>>
        /\ other \in {OtherCall(d.op, d.arg) :
                        d \in IF c \in Register3Calls THEN Register3Calls ELSE ModeCalls}
    /\ regs0 = regs

NextRace ==
    \/ Begin
    \/ DiagnosticsModeRead
    \/ DiagnosticsModeWrite
    \/ DiagnosticsPoll
    \/ DiagnosticsStatus
    \/ SetStandbyRead
    \/ SetStandbyWrite
    \/ SetGoRead
    \/ SetGoWrite
    \/ SetHighImpedanceStateRead
    \/ SetHighImpedanceStateWrite
    \/ SetLibraryRead
    \/ SetLibraryWrite
    \/ DeviceClearGo
    \/ OtherRead
    \/ OtherWrite

\* the steps of two actors on one chip, in any order
RaceSpec == InitRace /\ [][NextRace]_vars

\* a step of the driver: the code of an operation runs on
Driver ==
    \/ CheckId
    \/ ConfigFeedbackRead
    \/ ConfigFeedbackWrite
    \/ DiagnosticsModeRead
    \/ DiagnosticsModeWrite
    \/ DiagnosticsPoll
    \/ DiagnosticsStatus
    \/ SetStandbyRead
    \/ SetStandbyWrite
    \/ SetGoRead
    \/ SetGoWrite
    \/ SetWaveform
    \/ SetSingleEffect
    \/ GetStatus
    \/ GetMode
    \/ Reset
    \/ SetRealtimePlaybackInput
    \/ SetOverdriveTimeOffset
    \/ SetSustainTimeOffsetPositive
    \/ SetSustainTimeOffsetNegative
    \/ SetBrakeTimeOffset
    \/ SetHighImpedanceStateRead
    \/ SetHighImpedanceStateWrite
    \/ SetLibraryRead
    \/ SetLibraryWrite
    \/ SetOpenLoopRead
    \/ SetOpenLoopWrite
    \/ OtpStatusRead
    \/ CalibrateParamWrite
    \/ CalibrateModeRead
    \/ CalibrateModeWrite
    \/ CalibratePoll
    \/ CalibrateStatus
    \/ CalibrateLoadRead

\* a step with a transport that does not fail
NextOk ==
    \/ Begin /\ AllOk(log')
    \/ U8From /\ AllOk(log')
    \/ NewWaitTime /\ AllOk(log')
    \/ CheckId /\ AllOk(log')
    \/ ConfigFeedbackRead /\ AllOk(log')
    \/ ConfigFeedbackWrite /\ AllOk(log')
    \/ DiagnosticsModeRead /\ AllOk(log')
    \/ DiagnosticsModeWrite /\ AllOk(log')
    \/ DiagnosticsPoll /\ AllOk(log')
    \/ DiagnosticsStatus /\ AllOk(log')
    \/ SetStandbyRead /\ AllOk(log')
    \/ SetStandbyWrite /\ AllOk(log')
    \/ SetGoRead /\ AllOk(log')
    \/ SetGoWrite /\ AllOk(log')
    \/ SetWaveform /\ AllOk(log')
    \/ SetSingleEffect /\ AllOk(log')
    \/ GetStatus /\ AllOk(log')
    \/ GetMode /\ AllOk(log')
    \/ Reset /\ AllOk(log')
    \/ SetRealtimePlaybackInput /\ AllOk(log')
    \/ SetOverdriveTimeOffset /\ AllOk(log')
    \/ SetSustainTimeOffsetPositive /\ AllOk(log')
    \/ SetSustainTimeOffsetNegative /\ AllOk(log')
    \/ SetBrakeTimeOffset /\ AllOk(log')
    \/ SetHighImpedanceStateRead /\ AllOk(log')
    \/ SetHighImpedanceStateWrite /\ AllOk(log')
    \/ SetLibraryRead /\ AllOk(log')
    \/ SetLibraryWrite /\ AllOk(log')
    \/ SetOpenLoopRead /\ AllOk(log')
    \/ SetOpenLoopWrite /\ AllOk(log')
    \/ OtpStatusRead /\ AllOk(log')
    \/ CalibrateParamWrite /\ AllOk(log')
    \/ CalibrateModeRead /\ AllOk(log')
    \/ CalibrateModeWrite /\ AllOk(log')
    \/ CalibratePoll /\ AllOk(log')
    \/ CalibrateStatus /\ AllOk(log')
    \/ CalibrateLoadRead /\ AllOk(log')
    \/ DeviceClearGo /\ AllOk(log')

\* a step of the driver with a transport that does not fail
DriverOk == Driver /\ AllOk(log')

\* the programs followed to their end: any one operation, diagnostics and
\* config on every Status byte, the conversions and the constructions
InitFair ==
    /\ New
    /\ \/ InitAnyCall
       \/ InitConfig
       \/ InitDiagnostics
       \/ InitConvert
       \/ InitOtp
       \/ InitAuto
    /\ regs0 = regs
    /\ other = OtherIdle

\* the transport never fails, the driver's code keeps running, the caller
\* makes the calls of its program, and the device ends in finite time the
\* process GO fired
FairSpec ==
    /\ InitFair
    /\ [][NextOk]_vars
    /\ WF_vars(DriverOk)
    /\ WF_vars(Begin)
    /\ WF_vars(DeviceClearGo)

TypeOK ==
    /\ dev \in Devs
    /\ other.pc \in {"idle", "read", "write", "done"}
    /\ regs \in [RegAddrs -> Byte]
    /\ tmp \in Byte
    /\ \A i \in 1..Len(log) :
        /\ log[i].addr = ADDRESS
        /\ \A k \in 1..Len(log[i].bytes) : log[i].bytes[k] \in Byte

---------------------------------------------------------------------------
(* What the claims speak of *)

\* the bus transactions of the k-th call of the program, in order
LogOf(k) == SelectSeq(log, LAMBDA e : e.call = k)

\* a transaction that reads register reg, and one that writes it alone
IsRead(e, reg) == e.kind = "write_read" /\ e.bytes = <<reg>> /\ e.addr = ADDRESS
IsWrite(e, reg) ==
    e.kind = "write" /\ Len(e.bytes) = 2 /\ e.bytes[1] = reg /\ e.addr = ADDRESS

\* bit i of byte b, by arithmetic
BitOf(b, i) == (b \div (2 ^ i)) % 2

\* the k-th call is op(a) and returned Ok
ReturnedOk(k, op, a) ==
    /\ k \in 1..Len(hist)
    /\ hist[k].op = op
    /\ hist[k].arg = a
    /\ hist[k].res = OkResult

\* the k-th call is op and returned r
Returned(k, op, r) ==
    /\ k \in 1..Len(hist)
    /\ hist[k].op = op
    /\ hist[k].res = r

---------------------------------------------------------------------------
(* C1 *)

\* the transactions of a config() that returned Ok: the Status read of the
\* identity check, the FeedbackControl read and write, then diagnostics (Mode
\* read and write, Go read and write, the GO polls, the Status read), and
\* last set_standby(true), a Mode read and then a Mode write with bit 6 set
ConfigShape(L) ==
    LET n == Len(L) IN
    /\ n >= 11
    /\ \A i \in 1..n : L[i].res = "ok"
    /\ IsRead(L[1], Status)
    /\ IsRead(L[2], FeedbackControl)
    /\ IsWrite(L[3], FeedbackControl)
    /\ IsRead(L[4], Mode)
    /\ IsWrite(L[5], Mode)
    /\ IsRead(L[6], Go)
    /\ IsWrite(L[7], Go)
    /\ \A i \in 8..(n - 3) : IsRead(L[i], Go)
    /\ IsRead(L[n - 2], Status)
    /\ IsRead(L[n - 1], Mode)
    /\ IsWrite(L[n], Mode)
    /\ BitOf(L[n].bytes[2], 6) = 1

\* C1: a config() that returned Ok made the identity check first, then the
\* motor-type and diagnostic set-up, then set_standby(true) last: the last bus
\* transaction is a Mode write with the standby bit 1, and the device is in
\* standby
C1_ConfigOrder ==
    \A k \in 1..Len(hist) :
        ReturnedOk(k, "config", <<>>) =>
            /\ ConfigShape(LogOf(k))
            /\ (k = Len(hist) /\ pc = "idle") =>
                /\ log[Len(log)] = LogOf(k)[Len(LogOf(k))]
                /\ BitOf(regs[Mode], 6) = 1

\* a config() returned Ok after the device kept GO set for a poll
C1_Witness ==
    /\ pc = "idle"
    /\ ReturnedOk(1, "config", <<>>)
    /\ Len(log) >= 12
    /\ BitOf(regs0[Mode], 6) = 0

---------------------------------------------------------------------------
(* C2 *)

\* C2: a failed bus transaction is the last one of the program: the operation
\* it belongs to has returned ConnectionError with that transaction's error,
\* nothing was retried and no later step ran; and an operation returns
\* ConnectionError only so
C2_FailFast ==
    /\ \A i \in 1..Len(log) :
        log[i].res # "ok" =>
            /\ i = Len(log)
            /\ pc = "idle"
            /\ todo = <<>>
            /\ log[i].call = Len(hist)
            /\ hist[Len(hist)].res = [kind |-> "ConnectionError", err |-> log[i].res]
    /\ \A k \in 1..Len(hist) :
        hist[k].res.kind = "ConnectionError" =>
            /\ LogOf(k) # <<>>
            /\ LogOf(k)[Len(LogOf(k))].res = hist[k].res.err
            /\ hist[k].res.err \in BusErrors

\* a GO poll of the diagnostics inside config() failed
C2_Witness ==
    /\ pc = "idle"
    /\ Returned(1, "config", [kind |-> "ConnectionError", err |-> "E2"])
    /\ Len(log) = 9
    /\ IsRead(log[8], Go) /\ log[8].res = "ok"
    /\ IsRead(log[9], Go) /\ log[9].res = "E2"

---------------------------------------------------------------------------
(* C3 *)

\* C3: config() starts with one read of Status; when that read succeeds,
\* config() fails with DeviceIdError exactly if bits 7..5 of the byte read are
\* not 3, and then that read is its only bus transaction: nothing was written
C3_IdentityCheck ==
    \A k \in 1..Len(hist) :
        (hist[k].op = "config" /\ LogOf(k) # <<>>) =>
            LET L == LogOf(k) IN
            /\ IsRead(L[1], Status)
            /\ L[1].res = "ok" =>
                /\ hist[k].res = DeviceIdError <=> L[1].rd[1] \div 32 # 3
                /\ hist[k].res = DeviceIdError =>
                    /\ Len(L) = 1
                    /\ \A a \in RegAddrs \ {Status, Go} : regs[a] = regs0[a]

\* config() failed with DeviceIdError on a Status byte whose id is 7
C3_Witness ==
    /\ pc = "idle"
    /\ Returned(1, "config", DeviceIdError)
    /\ log[1].rd = <<232>>

---------------------------------------------------------------------------
(* C4 *)

\* byte v is byte m with bit i made s and every other bit kept
OnlyBit(v, m, i, s) ==
    /\ BitOf(v, i) = s
    /\ \A j \in 0..7 \ {i} : BitOf(v, j) = BitOf(m, j)

\* the transactions L of a read-modify-write of register reg that makes bit i
\* equal to s: a read of reg, then (the read having succeeded) one write of
\* reg alone, with the byte read changed in bit i only
RmwShape(L, reg, i, s) ==
    /\ Len(L) <= 2
    /\ Len(L) >= 1 => IsRead(L[1], reg)
    /\ Len(L) = 2 =>
        /\ L[1].res = "ok"
        /\ IsWrite(L[2], reg)
        /\ OnlyBit(L[2].bytes[2], L[1].rd[1], i, s)

\* C4: set_standby(s) reads Mode and writes back the byte it read with bit 6
\* made s and bits 7, 5..3 and 2..0 kept; it writes no other register
C4_StandbyRmw ==
    \A k \in 1..Len(hist) :
        hist[k].op = "set_standby" =>
            /\ RmwShape(LogOf(k), Mode, 6, hist[k].arg[1])
            /\ hist[k].res = OkResult => Len(LogOf(k)) = 2
            /\ (hist[k].res = OkResult /\ k = 1 /\ Len(hist) = 1) =>
                /\ OnlyBit(regs[Mode], regs0[Mode], 6, hist[k].arg[1])
                /\ \A a \in RegAddrs \ {Mode, Go, Status} : regs[a] = regs0[a]

\* set_standby(false) returned Ok on a Mode register that held 0xFF
C4_Witness ==
    /\ pc = "idle"
    /\ ReturnedOk(1, "set_standby", <<0>>)
    /\ regs0[Mode] = 255
    /\ regs[Mode] = 191

---------------------------------------------------------------------------
(* C5 *)

\* C5: set_standby(true) and right after it set_standby(false), both Ok: the
\* mode code (bits 2..0) of the Mode register after the two calls is the one
\* it had before them
C5_StandbyCycle ==
    \A k \in 1..(Len(hist) - 1) :
        (ReturnedOk(k, "set_standby", <<1>>) /\ ReturnedOk(k + 1, "set_standby", <<0>>)) =>
            LET before == LogOf(k)[1].rd[1]
                after == LogOf(k + 1)[2].bytes[2]
            IN  /\ after % 8 = before % 8
                /\ k = 1 => before = regs0[Mode]
                /\ (k + 1 = Len(hist) /\ pc = "idle") => regs[Mode] = after

\* the two calls returned Ok on a Mode register that held 0x45
C5_Witness ==
    /\ pc = "idle"
    /\ ReturnedOk(1, "set_standby", <<1>>)
    /\ ReturnedOk(2, "set_standby", <<0>>)
    /\ Len(hist) = 2
    /\ regs0[Mode] = 69
    /\ regs[Mode] = 5

---------------------------------------------------------------------------
(* C6 *)

\* C6: a set_waveform(w) that has returned made exactly one bus transaction,
\* a write of the 9 bytes 0x04, w[0], .., w[7], and no read
C6_WaveformWrite ==
    \A k \in 1..Len(hist) :
        hist[k].op = "set_waveform" =>
            LET L == LogOf(k) IN
            /\ Len(L) <= 1
            /\ hist[k].res # Running => Len(L) = 1
            /\ Len(L) = 1 =>
                /\ L[1].kind = "write"
                /\ L[1].addr = 90
                /\ Len(L[1].bytes) = 9
                /\ L[1].bytes[1] = 4
                /\ \A i \in 1..8 : L[1].bytes[i + 1] = hist[k].arg[i]

\* set_waveform returned Ok for a waveform of stops, effects and waits
C6_Witness ==
    /\ pc = "idle"
    /\ ReturnedOk(1, "set_waveform", <<47, 131, 0, 47, 47, 131, 0, 131>>)
    /\ \A i \in 1..8 : regs[3 + i] = hist[1].arg[i]

---------------------------------------------------------------------------
(* C7 *)

\* a bus write that reaches one of the sequence registers 0x04..0x0B
SeqWrite(e) ==
    /\ e.kind = "write"
    /\ Len(e.bytes) >= 2
    /\ e.bytes[1] <= 11
    /\ e.bytes[1] + Len(e.bytes) - 2 >= 4

\* C7 as claimed: every bus write to the sequence registers carries 8 slots
C7_AlwaysEightSlots ==
    \A i \in 1..Len(log) : SeqWrite(log[i]) => Len(log[i].bytes) = 9

\* C7, amended: every bus write to the sequence registers starts at 0x04 and
\* is the only transaction of its operation; set_waveform's carries the 8
\* slots, set_single_effect's carries 2 slots, and no other operation makes one
C7_SlotsPerWrite ==
    \A i \in 1..Len(log) :
        SeqWrite(log[i]) =>
            /\ log[i].bytes[1] = 4
            /\ Len(LogOf(log[i].call)) = 1
            /\ \/ hist[log[i].call].op = "set_waveform" /\ Len(log[i].bytes) = 9
               \/ hist[log[i].call].op = "set_single_effect" /\ Len(log[i].bytes) = 3

\* both kinds of write happened: here set_single_effect's, of 2 slots
C7_Witness ==
    /\ pc = "idle"
    /\ Returned(1, "set_single_effect", OkResult)
    /\ SeqWrite(log[1])
    /\ Len(log[1].bytes) = 3

---------------------------------------------------------------------------
(* C8 *)

\* C8: set_single_effect(e) and right after it set_go(true), both Ok, put on
\* the bus the 3-byte write 0x04, e, 0, then a read of Go, then a write of Go
\* with bit 0 set, and nothing else; with e = 1 for StrongClick100
C8_SingleThenGo ==
    \A k \in 1..(Len(hist) - 1) :
        (Returned(k, "set_single_effect", OkResult) /\ ReturnedOk(k + 1, "set_go", <<1>>)) =>
            LET T == LogOf(k) \o LogOf(k + 1) IN
            /\ Len(T) = 3
            /\ \A i \in 1..3 : T[i].res = "ok" /\ T[i].addr = 90
            /\ T[1].kind = "write"
            /\ T[1].bytes = <<4, hist[k].arg[1], 0>>
            /\ IsRead(T[2], 12)
            /\ IsWrite(T[3], 12)
            /\ BitOf(T[3].bytes[2], 0) = 1
            /\ Len(hist) = 2 => log = T

\* the scenario with StrongClick100
C8_Witness ==
    /\ pc = "idle"
    /\ ReturnedOk(1, "set_single_effect", <<1>>)
    /\ ReturnedOk(2, "set_go", <<1>>)
    /\ log[1].bytes = <<4, 1, 0>>
    /\ Len(log) = 3

---------------------------------------------------------------------------
(* C9 *)

\* C9: right after a set_single_effect(e) that returned Ok, slot 0 holds e,
\* slot 1 holds 0, slots 2..7 hold what they held, and the sequencer plays
\* e alone
C9_SingleEffectSlots ==
    (pc = "idle" /\ Len(hist) = 1 /\ Returned(1, "set_single_effect", OkResult)) =>
        /\ regs[4] = hist[1].arg[1]
        /\ regs[5] = 0
        /\ \A a \in 6..11 : regs[a] = regs0[a]
        /\ Played(regs) = <<hist[1].arg[1]>>

\* the effect 123 was set over a sequence of eight non-zero slots
C9_Witness ==
    /\ pc = "idle"
    /\ Len(hist) = 1
    /\ ReturnedOk(1, "set_single_effect", <<123>>)
    /\ \A a \in 4..11 : regs0[a] # 0
    /\ regs[6] = 6

---------------------------------------------------------------------------
(* C10 *)

\* C10: set_go(g) reads Go and writes back the byte it read with bit 0 made g
\* and bits 7..1 kept; it writes no register but Go, so Mode and the sequence
\* registers hold what they held
C10_GoRmw ==
    \A k \in 1..Len(hist) :
        hist[k].op = "set_go" =>
            /\ RmwShape(LogOf(k), Go, 0, hist[k].arg[1])
            /\ hist[k].res = OkResult => Len(LogOf(k)) = 2
            /\ (k = 1 /\ Len(hist) = 1) =>
                \A a \in RegAddrs \ {Go, Status} : regs[a] = regs0[a]

\* set_go(true) returned Ok on a Go register that held 0xFE
C10_Witness ==
    /\ pc = "idle"
    /\ ReturnedOk(1, "set_go", <<1>>)
    /\ regs0[Go] = 254
    /\ log[2].bytes = <<12, 255>>


---------------------------------------------------------------------------
(* C11 *)

\* a bus write that reaches register reg
Reaches(e, reg) ==
    /\ e.kind = "write"
    /\ Len(e.bytes) >= 2
    /\ e.bytes[1] <= reg
    /\ reg <= e.bytes[1] + Len(e.bytes) - 2

\* the open-loop bit of Control3 that belongs to the other motor type
OtherOpenLoopBit == IF dev = "Drv2605Erm" THEN 0 ELSE 5

---------------------------------------------------------------------------
(* C12 *)

\* the transactions L of a diagnostics() that went through: Mode read and
\* write, Go read and write, GO reads of which the last alone finds bit 0
\* clear, then the Status read
DiagnosticsShape(L) ==
    LET n == Len(L) IN
    /\ n >= 6
    /\ IsRead(L[1], 1)
    /\ IsWrite(L[2], 1)
    /\ IsRead(L[3], 12)
    /\ IsWrite(L[4], 12)
    /\ \A i \in 5..(n - 1) : IsRead(L[i], 12)
    /\ \A i \in 5..(n - 2) : BitOf(L[i].rd[1], 0) = 1
    /\ BitOf(L[n - 1].rd[1], 0) = 0
    /\ IsRead(L[n], 0)

\* C12: a diagnostics() that has returned with no bus transaction failed read
\* Status once, last, after a Go read that found bit 0 clear; it returned
\* DeviceDiagError if bit 3 of that Status byte is set and Ok if it is clear,
\* whatever the other bits of the byte
C12_DiagResult ==
    \A k \in 1..Len(hist) :
        (hist[k].op = "diagnostics" /\ hist[k].res # Running /\ AllOk(LogOf(k))) =>
            LET L == LogOf(k) IN
            /\ DiagnosticsShape(L)
            /\ hist[k].res = IF BitOf(L[Len(L)].rd[1], 3) = 1
                              THEN DeviceDiagError ELSE OkResult

\* diagnostics() returned DeviceDiagError on a Status byte with bit 3 alone set
C12_Witness ==
    /\ pc = "idle"
    /\ Returned(1, "diagnostics", DeviceDiagError)
    /\ AllOk(log)
    /\ log[Len(log)].rd = <<8>>

---------------------------------------------------------------------------
(* C13 *)

\* the Mode write a diagnostics() made before it asserted GO: its second
\* transaction, after the Mode read
ModeWriteOf(L) == L[2]

\* C13: the Mode write diagnostics() makes before asserting GO has the mode
\* field (bits 2..0) equal to 6, Mode::Diagnostics, and the standby bit
\* (bit 6) cleared
C13_DiagnosticsMode ==
    \A k \in 1..Len(hist) :
        (hist[k].op = "diagnostics" /\ Len(LogOf(k)) >= 2) =>
            LET w == ModeWriteOf(LogOf(k)) IN
            /\ IsWrite(w, 1)
            /\ w.bytes[2] % 8 = 6
            /\ BitOf(w.bytes[2], 6) = 0

---------------------------------------------------------------------------
(* C14 *)

\* a call of diagnostics(), or of config(), which calls it, is running
DiagnosticsRunning ==
    /\ pc # "idle"
    /\ hist[Len(hist)].op \in {"diagnostics", "config"}

\* the last call was one of these and has returned: diagnostics() with Ok or
\* DeviceDiagError, config() with one of these or DeviceIdError
DiagnosticsReturned ==
    /\ pc = "idle"
    /\ Len(hist) >= 1
    /\ hist[Len(hist)].op \in {"diagnostics", "config"}
    /\ hist[Len(hist)].res \in
            IF hist[Len(hist)].op = "diagnostics"
            THEN {OkResult, DeviceDiagError}
            ELSE {OkResult, DeviceDiagError, DeviceIdError}

\* C14: with a transport that never fails and a device that clears GO in
\* finite time once it is set, every call of diagnostics(), made directly or
\* by config(), returns, and it returns Ok or DeviceDiagError
C14_DiagnosticsReturns == DiagnosticsRunning ~> DiagnosticsReturned

\* diagnostics() returned Ok after the device had kept GO set for as many
\* polls as the log keeps
C14_Witness ==
    /\ pc = "idle"
    /\ Returned(1, "diagnostics", OkResult)
    /\ AllOk(log)
    /\ Len(log) = 6 + MaxPolls

---------------------------------------------------------------------------
(* C15 *)

\* the last bus transaction in the log after the step
LastAfter == log'[Len(log')]

\* a step taken inside the poll loop stays in the loop, unless it is a read
\* of Go that failed, which ends the call with ConnectionError, or a read of
\* Go that found bit 0 clear, which goes on to the Status read
PollExit ==
    pc = "DiagnosticsPoll" =>
        \/ pc' = "DiagnosticsPoll" /\ AllOk(log')
        \/ /\ pc' = "idle"
           /\ Len(log') = Len(log) + 1
           /\ IsRead(LastAfter, 12)
           /\ LastAfter.res # "ok"
           /\ hist'[Len(hist')].res = ConnectionError(LastAfter.res)
        \/ /\ pc' = "DiagnosticsStatus"
           /\ Len(log') = Len(log) + 1
           /\ IsRead(LastAfter, 12)
           /\ LastAfter.res = "ok"
           /\ BitOf(LastAfter.rd[1], 0) = 0

\* the loop can always go round once more: a read of Go that does not fail
\* is possible however many reads there have been, and while the device
\* holds GO set it leads back into the loop only
PollOpen ==
    pc = "DiagnosticsPoll" =>
        /\ ENABLED (DiagnosticsPoll /\ AllOk(log'))
        /\ BitOf(regs[12], 0) = 1 =>
            ~ ENABLED (DiagnosticsPoll /\ AllOk(log') /\ pc' # "DiagnosticsPoll")

\* C15: the GO poll loop of diagnostics(), and so of config(), has no
\* iteration limit: it is left only by a Go read that finds bit 0 clear or by
\* a failed transaction, and another read is always possible; so with a
\* device that never clears GO and a transport that never fails the call
\* never returns
C15_PollUnbounded == [][PollExit]_vars /\ []PollOpen

\* the loop is still running after more reads that found GO set than the log
\* keeps: the further read changed nothing
C15_Witness ==
    /\ pc = "DiagnosticsPoll"
    /\ Polls = MaxPolls
    /\ tmp % 2 = 1
    /\ AllOk(log)
    /\ BitOf(regs[12], 0) = 1

---------------------------------------------------------------------------
(* C16 *)

\* byte b with bit i made s, and with bits 2..0 made v
WithBit(b, i, s) == b - BitOf(b, i) * (2 ^ i) + s * (2 ^ i)
WithLow3(b, v) == b - (b % 8) + v

\* what the call op(a) changes in the byte b of its register; diagnostics()
\* clears the standby bit and selects the mode code 1, as the code has it
ChangeOf(op, a, b) ==
    CASE op = "set_standby" -> WithBit(b, 6, a[1])
      [] op = "set_high_impedance_state" -> WithBit(b, 4, a[1])
      [] op = "set_library" -> WithLow3(b, a[1])
      [] op = "diagnostics" -> WithBit(WithLow3(b, 1), 6, 0)

\* the place in the log of the read (n = 1) and of the write (n = 2) that
\* call k, 0 for the second actor, makes on its register
PlaceOf(k, n) ==
    CHOOSE i \in 1..Len(log) :
        /\ log[i].call = k
        /\ Cardinality({j \in 1..i : log[j].call = k}) = n

\* both actors have made the read and the write of their updates, and no
\* transaction of the first actor's update failed
BothUpdated ==
    /\ Len(hist) = 1
    /\ Len(LogOf(1)) >= 2
    /\ AllOk(SubSeq(LogOf(1), 1, 2))
    /\ other.pc = "done"

\* C16: two actors each make a read-modify-write of the same register. Each
\* writes the byte it read itself with its own change, whatever was written
\* in between, and the register ends with the byte written last. So when
\* each read the register before the other wrote it, the register holds the
\* later writer's change of the first value alone and the other change is
\* lost; when one finished before the other read, both changes are there
C16_LostUpdate ==
    BothUpdated =>
        LET reg == OtherReg
            r1 == PlaceOf(1, 1)
            w1 == PlaceOf(1, 2)
            r2 == PlaceOf(0, 1)
            w2 == PlaceOf(0, 2)
            F1(b) == ChangeOf(hist[1].op, hist[1].arg, b)
            F2(b) == ChangeOf(other.op, other.arg, b)
        IN  /\ IsRead(log[r1], reg) /\ IsWrite(log[w1], reg)
            /\ IsRead(log[r2], reg) /\ IsWrite(log[w2], reg)
            /\ log[w1].bytes[2] = F1(log[r1].rd[1])
            /\ log[w2].bytes[2] = F2(log[r2].rd[1])
            /\ regs[reg] = IF w1 < w2 THEN log[w2].bytes[2] ELSE log[w1].bytes[2]
            /\ (r1 < w2 /\ r2 < w1) =>
                regs[reg] = IF w1 < w2 THEN F2(regs0[reg]) ELSE F1(regs0[reg])
            /\ w1 < r2 => regs[reg] = F2(F1(regs0[reg]))
            /\ w2 < r1 => regs[reg] = F1(F2(regs0[reg]))

\* set_standby(true) of the second actor in the middle of the Mode update of
\* diagnostics(): Mode held 0x00 and ends as 0x40, with the mode code that
\* diagnostics() wrote lost; one after the other they leave 0x41 or 0x01
C16_Witness ==
    /\ BothUpdated
    /\ pc = "idle"
    /\ hist[1].op = "diagnostics"
    /\ other.op = "set_standby" /\ other.arg = <<1>>
    /\ regs0[1] = 0
    /\ PlaceOf(1, 1) < PlaceOf(0, 2) /\ PlaceOf(0, 1) < PlaceOf(1, 2)
    /\ regs[1] = 64

---------------------------------------------------------------------------
(* C17 *)

\* the effects the claim speaks of: Stop, the catalog, and Delays(n), n <= 127
EffectsInRange ==
    {<<0, 0>>} \cup {<<2, i>> : i \in 1..123} \cup {<<1, n>> : n \in 0..127}

\* the decoding of byte v: the effect in range that encodes to v
Decode(v) == CHOOSE e \in EffectsInRange : u8_from(e) = v

\* C17: the byte v that encodes an effect e in range is the byte of no other
\* effect in range, so v decodes to e and encodes again to v; Stop gives 0,
\* the i-th catalog effect gives i, which is in 1..123 and has bit 7 clear,
\* and every value of 1..123 is the byte of a catalog effect
C17_EncodingRoundTrip ==
    \A k \in 1..Len(hist) :
        (hist[k].op = "u8_from" /\ hist[k].arg \in EffectsInRange) =>
            LET e == hist[k].arg
                v == hist[k].res.val
            IN  /\ v \in 0..255
                /\ \A f \in EffectsInRange : u8_from(f) = v => f = e
                /\ Decode(v) = e
                /\ u8_from(Decode(v)) = v
                /\ e[1] = 0 => v = 0
                /\ e[1] = 2 => v = e[2] /\ v \in 1..123 /\ BitOf(v, 7) = 0
                /\ e[1] = 1 => BitOf(v, 7) = 1
                /\ \A w \in 1..123 : \E i \in 1..123 : u8_from(<<2, i>>) = w

\* the last catalog effect, SmoothHumFive10, was encoded: to 123
C17_Witness ==
    /\ Len(hist) = 1
    /\ hist[1].op = "u8_from"
    /\ hist[1].arg = <<2, 123>>
    /\ hist[1].res.val = 123

---------------------------------------------------------------------------
(* C18 *)

\* the k-th call encodes a delay of n tens of milliseconds, by either of the
\* two encoders
EncodesDelay(k, n) ==
    \/ hist[k].op = "u8_from" /\ hist[k].arg = <<1, n>>
    \/ hist[k].op = "new_wait_time" /\ hist[k].arg = <<n>>

\* C18: a delay of n tens of milliseconds, n in 0..127, is encoded as 0x80 + n:
\* bit 7 set and bits 6..0 equal to n; so a delay of 0 is 0x80, which is not
\* the byte 0 of a stop
C18_DelayEncoding ==
    \A k \in 1..Len(hist) :
        \A n \in 0..127 :
            EncodesDelay(k, n) =>
                LET v == hist[k].res.val IN
                /\ v = 128 + n
                /\ BitOf(v, 7) = 1
                /\ v % 128 = n
                /\ v # u8_from(<<0, 0>>)
                /\ v # new_stop
                /\ n = 0 => v = 128

\* new_wait_time(0) returned 0x80
C18_Witness ==
    /\ Len(hist) = 1
    /\ hist[1].op = "new_wait_time"
    /\ hist[1].arg = <<0>>
    /\ hist[1].res.val = 128

---------------------------------------------------------------------------
(* C19 *)

\* the addresses of the register map: 0x00..0x10 and 0x16..0x1E
RegisterMap == (0..16) \cup (22..30)

\* C19: every bus transaction of every operation is addressed to 0x5A and its
\* first byte is an address of the register map. A read is a write of the 1
\* address byte followed by a read of 1 byte; a write is the 2 bytes address,
\* value, but for the write of set_waveform (9 bytes, registers 0x04..0x0B)
\* and that of set_single_effect (3 bytes, registers 0x04 and 0x05)
C19_BusShape ==
    \A i \in 1..Len(log) :
        LET e == log[i]
            op == hist[e.call].op
        IN  /\ e.addr = 90
            /\ e.call \in 1..Len(hist)
            /\ Len(e.bytes) >= 1
            /\ e.bytes[1] \in RegisterMap
            /\ \A j \in 1..Len(e.bytes) : e.bytes[j] \in 0..255
            /\ e.kind \in {"write", "write_read"}
            /\ e.kind = "write_read" =>
                /\ Len(e.bytes) = 1
                /\ Len(e.rd) = IF e.res = "ok" THEN 1 ELSE 0
            /\ e.kind = "write" =>
                /\ e.rd = <<>>
                /\ Len(e.bytes) = CASE op = "set_waveform" -> 9
                                    [] op = "set_single_effect" -> 3
                                    [] OTHER -> 2
                /\ e.bytes[1] + Len(e.bytes) - 2 \in RegisterMap

\* set_high_impedance_state(true) returned Ok: a read of register 0x03, one
\* byte read, then the 2-byte write 0x03, 0xB5
C19_Witness ==
    /\ pc = "idle"
    /\ ReturnedOk(1, "set_high_impedance_state", <<1>>)
    /\ log[1].kind = "write_read" /\ log[1].bytes = <<3>> /\ log[1].rd = <<165>>
    /\ log[2].kind = "write" /\ log[2].bytes = <<3, 181>>
    /\ log[2].addr = 90

---------------------------------------------------------------------------
(* C20 *)

\* C20: as long as no operation has been called on the handle that new(i2c)
\* made, there has been no bus transaction, and the registers hold what they
\* held but for what the device does by itself (GO cleared, DIAG_RESULT set);
\* the first transaction there is belongs to the first call
C20_NewNoTraffic ==
    /\ hist = <<>> =>
        /\ log = <<>>
        /\ pc = "idle"
        /\ \A a \in RegAddrs \ {0, 12} : regs[a] = regs0[a]
        /\ \A j \in 1..7 : BitOf(regs[12], j) = BitOf(regs0[12], j)
        /\ \A j \in {0, 1, 2, 4, 5, 6, 7} : BitOf(regs[0], j) = BitOf(regs0[0], j)
    /\ log # <<>> => log[1].call = 1

\* the handle was made, the device has cleared GO by itself, and the first
\* call, a config(), has not been made yet
C20_Witness ==
    /\ hist = <<>>
    /\ log = <<>>
    /\ todo = <<[op |-> "config", arg |-> <<>>]>>
    /\ regs0[12] = 255
    /\ regs[12] = 254

---------------------------------------------------------------------------
(* C21 *)

\* the two's-complement byte of an i8
TwosComplement(v) == IF v < 0 THEN v + 256 ELSE v

\* C21: set_realtime_playback_input(v), for every v of -128..127, makes one
\* bus transaction, the write [0x02, two's-complement byte of v]: it reads no
\* register, and the Mode register (like every register but 0x02 and the two
\* the device itself updates, Status and Go) is neither read nor changed
C21_RealtimeDirectWrite ==
    \A k \in 1..Len(hist) :
        hist[k].op = "set_realtime_playback_input" =>
            LET L == LogOf(k)
                v == hist[k].arg[1]
            IN  /\ Len(L) <= 1
                /\ hist[k].res # Running => Len(L) = 1
                /\ \A i \in 1..Len(L) :
                    /\ L[i].kind = "write"
                    /\ L[i].addr = 90
                    /\ L[i].bytes = <<2, TwosComplement(v)>>
                /\ Len(hist) = 1 =>
                    /\ regs[1] = regs0[1]
                    /\ \A a \in RegAddrs \ {0, 2, 12} : regs[a] = regs0[a]
                    /\ hist[k].res = OkResult => regs[2] = TwosComplement(v)
                    /\ hist[k].res # OkResult => regs[2] = regs0[2]

\* set_realtime_playback_input(-128) returned Ok: the byte written is 0x80
C21_Witness ==
    /\ pc = "idle"
    /\ ReturnedOk(1, "set_realtime_playback_input", <<-128>>)
    /\ log = <<[kind |-> "write", addr |-> 90, bytes |-> <<2, 128>>,
                rd |-> <<>>, res |-> "ok", call |-> 1]>>
    /\ regs[1] = 189

---------------------------------------------------------------------------
(* C22 *)

\* C22: a construction with the factory (OTP) calibration that reads Control4
\* with bit 2 at 0 fails with OTPNotProgrammed right there, and a construction
\* fails so only on such a read: its bus transactions are the Status read of
\* the identity check and that Control4 read, none is a write, and every
\* register but the two the device itself updates holds what it held
C22_OtpNotProgrammed ==
    \A k \in 1..Len(hist) :
        hist[k].op = "construct_otp" =>
            LET L == LogOf(k)
                unset == {i \in 1..Len(L) :
                            /\ IsRead(L[i], 30)
                            /\ L[i].res = "ok"
                            /\ BitOf(L[i].rd[1], 2) = 0}
            IN  /\ hist[k].res = OTPNotProgrammed <=> unset # {}
                /\ unset # {} =>
                    /\ unset = {2}
                    /\ Len(L) = 2
                    /\ IsRead(L[1], 0)
                    /\ \A i \in 1..Len(L) : L[i].kind # "write"
                    /\ \A a \in RegAddrs \ {0, 12} : regs[a] = regs0[a]
                    /\ pc = "idle"

\* a construction failed with OTPNotProgrammed on a Control4 byte with every
\* bit set but bit 2
C22_Witness ==
    /\ pc = "idle"
    /\ Returned(1, "construct_otp", OTPNotProgrammed)
    /\ regs0[30] = 251
    /\ Len(log) = 2

---------------------------------------------------------------------------
(* C23 *)

\* the Status reads of an automatic calibration, after the one of the
\* identity check, that returned the diagnostic-result flag set
FailingStatusReads(L) ==
    {i \in 2..Len(L) : /\ IsRead(L[i], 0)
                       /\ L[i].res = "ok"
                       /\ BitOf(L[i].rd[1], 3) = 1}

\* C23: an automatic calibration whose Status read, after GO cleared, returns
\* diagnostic-result = 1 fails with CalibrationError (CalibrationFailed), and
\* fails so only then; that Status read follows a GO read that found GO clear
\* and is the last bus transaction: the load parameters (registers 0x18, 0x19
\* and the gain field's register 0x1A) are not read, before it or after it
C23_CalibrationFailed ==
    \A k \in 1..Len(hist) :
        hist[k].op = "construct_auto" =>
            LET L == LogOf(k)
                F == FailingStatusReads(L)
            IN  /\ hist[k].res = CalibrationError <=> F # {}
                /\ F # {} =>
                    /\ F = {Len(L)}
                    /\ pc = "idle"
                    /\ IsRead(L[Len(L) - 1], 12)
                    /\ BitOf(L[Len(L) - 1].rd[1], 0) = 0
                    /\ \A i \in 1..Len(L) : \A r \in {24, 25, 26} : ~IsRead(L[i], r)

\* GO cleared after 3 polls (two reads found it set, the third clear) and the
\* Status read that followed returned diagnostic-result = 1
C23_Witness ==
    /\ pc = "idle"
    /\ Returned(1, "construct_auto", CalibrationError)
    /\ Len(log) = 15
    /\ IsRead(log[12], 12) /\ BitOf(log[12].rd[1], 0) = 1
    /\ IsRead(log[13], 12) /\ BitOf(log[13].rd[1], 0) = 1
    /\ IsRead(log[14], 12) /\ BitOf(log[14].rd[1], 0) = 0
    /\ IsRead(log[15], 0) /\ BitOf(log[15].rd[1], 3) = 1

---------------------------------------------------------------------------
(* C24 *)

\* the bus transactions diagnostics() made in the k-th call: all of them, or
\* those after the identity check and the FeedbackControl update of a config()
DiagnosticsPart(k) ==
    IF hist[k].op = "config" THEN SubSeq(LogOf(k), 4, Len(LogOf(k))) ELSE LogOf(k)

\* the reads of Go in D that returned GO = 0
ClearReads(D) ==
    {i \in 1..Len(D) : IsRead(D[i], 12) /\ D[i].res = "ok" /\ BitOf(D[i].rd[1], 0) = 0}

\* C24: diagnostics() reads Status at most once, once exactly when it returns
\* Ok or DeviceDiagError, and only right after the first read of Go, past the
\* write that asserts GO, that returned GO = 0; from that write to that read
\* every bus transaction is a read of Go; and GO is clear in the device when
\* the Status read is due, so the flag is not sampled while the routine runs
C24_StatusAfterGoClear ==
    /\ pc = "DiagnosticsStatus" => BitOf(regs[12], 0) = 0
    /\ \A k \in 1..Len(hist) :
        hist[k].op \in {"diagnostics", "config"} =>
            LET D == DiagnosticsPart(k)
                S == {i \in 1..Len(D) : IsRead(D[i], 0)}
                C == {i \in ClearReads(D) : i > 4}
            IN  /\ Cardinality(S) <= 1
                /\ (hist[k].op = "diagnostics" /\ hist[k].res \in {OkResult, DeviceDiagError})
                        => Cardinality(S) = 1
                /\ \A i \in S :
                    /\ i - 1 \in C
                    /\ \A j \in C : j >= i - 1
                    /\ IsWrite(D[4], 12)
                    /\ BitOf(D[4].bytes[2], 0) = 1
                    /\ \A j \in 5..(i - 1) : IsRead(D[j], 12)
                /\ (Len(D) >= 4 /\ S = {}) => \A j \in 5..Len(D) : IsRead(D[j], 12)

\* diagnostics() returned after a poll that found GO set, one that found it
\* clear, and then its one Status read
C24_Witness ==
    /\ pc = "idle"
    /\ Returned(1, "diagnostics", DeviceDiagError)
    /\ Len(log) = 7
    /\ IsRead(log[5], 12) /\ BitOf(log[5].rd[1], 0) = 1
    /\ IsRead(log[6], 12) /\ BitOf(log[6].rd[1], 0) = 0
    /\ IsRead(log[7], 0)

---------------------------------------------------------------------------
(* C25 *)

\* the motor-type bit of the handle: 0 on an ERM handle, 1 on an LRA handle
MotorBit == IF dev = "Drv2605Lra" THEN 1 ELSE 0

\* the calls so far are calls of the driver's operations, reset() not among them
NoResetSoFar ==
    \A k \in 1..Len(hist) : hist[k].op \notin {"reset", "construct_otp", "construct_auto"}

\* C25: a config() that returned Ok wrote FeedbackControl once, the byte it
\* read with bit 7 made the handle's motor type (0 on ERM, 1 on LRA) and bits
\* 6..0 as read; and whatever operations but reset() run afterwards, the
\* register keeps the byte config() wrote, bit 7 with it: every bus write that
\* reaches FeedbackControl is a config()'s
C25_MotorTypeBit ==
    NoResetSoFar =>
        /\ \A i \in 1..Len(log) : Reaches(log[i], 26) => hist[log[i].call].op = "config"
        /\ \A k \in 1..Len(hist) :
            ReturnedOk(k, "config", <<>>) =>
                LET L == LogOf(k) IN
                /\ IsRead(L[2], 26)
                /\ IsWrite(L[3], 26)
                /\ \A i \in 4..Len(L) : ~Reaches(L[i], 26)
                /\ L[3].bytes[2] = WithBit(L[2].rd[1], 7, MotorBit)
                /\ regs[26] = L[3].bytes[2]
                /\ BitOf(regs[26], 7) = MotorBit
                /\ regs[26] % 128 = regs0[26] % 128

\* on an LRA handle whose FeedbackControl held 0x36, config() returned Ok and
\* two more calls were made: the register holds 0xB6
C25_Witness ==
    /\ pc = "idle"
    /\ dev = "Drv2605Lra"
    /\ ReturnedOk(1, "config", <<>>)
    /\ ReturnedOk(2, "set_open_loop", <<>>)
    /\ ReturnedOk(3, "set_standby", <<0>>)
    /\ regs0[26] = 54
    /\ regs[26] = 182

---------------------------------------------------------------------------
(* C26 *)

\* the k-th call, a config(), failed inside its diagnostic step: with
\* DeviceDiagError, or with a transport failure after the Mode write of
\* diagnostics(), its fifth bus transaction, and so in a transaction on Go
\* or on Status
FailedInDiagnostics(k) ==
    /\ hist[k].op = "config"
    /\ \/ hist[k].res = DeviceDiagError
       \/ /\ hist[k].res.kind = "ConnectionError"
          /\ Len(LogOf(k)) >= 6
          /\ LogOf(k)[Len(LogOf(k))].bytes[1] \in {12, 0}

\* C26: a config() that failed inside its diagnostic step did not perform the
\* final set_standby(true): its one write of Mode is the one diagnostics()
\* made, with the standby bit 0, and nothing follows the failure; the device
\* is left with that Mode byte, awake, and with the FeedbackControl byte
\* config() wrote
C26_FailedConfigLeftAwake ==
    \A k \in 1..Len(hist) :
        FailedInDiagnostics(k) =>
            LET L == LogOf(k) IN
            /\ \A i \in 1..Len(L) : Reaches(L[i], 1) <=> i = 5
            /\ IsWrite(L[5], 1)
            /\ BitOf(L[5].bytes[2], 6) = 0
            /\ IsWrite(L[3], 26)
            /\ \A i \in 1..(Len(L) - 1) : L[i].res = "ok"
            /\ hist[k].res = DeviceDiagError => IsRead(L[Len(L)], 0)
            /\ k = Len(hist)
            /\ pc = "idle"
            /\ log[Len(log)] = L[Len(L)]
            /\ regs[1] = L[5].bytes[2]
            /\ BitOf(regs[1], 6) = 0
            /\ regs[26] = L[3].bytes[2]
            /\ BitOf(regs[26], 7) = MotorBit

\* config() failed with DeviceDiagError on a device that was in standby: it
\* is awake now, and an LRA handle's motor-type bit is written
C26_Witness ==
    /\ pc = "idle"
    /\ dev = "Drv2605Lra"
    /\ Returned(1, "config", DeviceDiagError)
    /\ BitOf(regs0[1], 6) = 1
    /\ BitOf(regs[1], 6) = 0
    /\ regs0[26] = 54
    /\ regs[26] = 182

---------------------------------------------------------------------------
(* C27 *)

\* C27: reset() makes one bus transaction, the write [0x01, 0x80] (DEV_RESET
\* 1, standby 0, mode code 0), and no read of Mode before it: the byte written
\* is the same whatever the Mode register held
C27_ResetWrite ==
    \A k \in 1..Len(hist) :
        hist[k].op = "reset" =>
            LET L == LogOf(k) IN
            /\ Len(L) <= 1
            /\ hist[k].res # Running => Len(L) = 1
            /\ \A i \in 1..Len(L) :
                /\ L[i].kind = "write"
                /\ L[i].addr = 90
                /\ L[i].bytes = <<1, 128>>
                /\ BitOf(L[i].bytes[2], 7) = 1
                /\ BitOf(L[i].bytes[2], 6) = 0
                /\ L[i].bytes[2] % 8 = 0
            /\ (Len(hist) = 1 /\ hist[k].res = OkResult) => regs[1] = 128

\* reset() returned Ok on a device in standby with mode code 7 and other
\* bits of Mode set
C27_Witness ==
    /\ pc = "idle"
    /\ ReturnedOk(1, "reset", <<>>)
    /\ regs0[1] = 127
    /\ regs[1] = 128
    /\ Len(log) = 1

---------------------------------------------------------------------------
(* C28 *)

\* the calls after the k-th are calls of set_standby, set_go, set_waveform,
\* set_single_effect and set_library
OnlyModeKeepersAfter(k) ==
    \A j \in (k + 1)..Len(hist) :
        hist[j].op \in {"set_standby", "set_go", "set_waveform", "set_single_effect",
                        "set_library"}

\* C28: diagnostics() does not restore the mode field of Mode.  A config()
\* that returned Ok wrote Mode twice, in diagnostics() and in its final
\* set_standby(true), and the second write has the mode code of the first with
\* only the standby bit changed back to 1; through later calls of set_standby,
\* set_go, set_waveform, set_single_effect and set_library the mode field of
\* the register, and of every byte written to it, is still that code
C28_ModeFieldKept ==
    \A k \in 1..Len(hist) :
        ReturnedOk(k, "config", <<>>) =>
            LET L == LogOf(k)
                n == Len(L)
                code == L[5].bytes[2] % 8
            IN  /\ \A i \in 1..n : Reaches(L[i], 1) <=> i \in {5, n}
                /\ BitOf(L[5].bytes[2], 6) = 0
                /\ L[n].bytes[2] = WithBit(L[5].bytes[2], 6, 1)
                /\ OnlyModeKeepersAfter(k) =>
                    /\ regs[1] % 8 = code
                    /\ \A b \in {3, 4, 5, 7} : BitOf(regs[1], b) = BitOf(L[n].bytes[2], b)
                    /\ \A i \in 1..Len(log) :
                        (log[i].call > k /\ Reaches(log[i], 1)) =>
                            /\ hist[log[i].call].op = "set_standby"
                            /\ log[i].bytes[2] % 8 = code

\* on an ERM handle whose Mode held mode code 5, config() returned Ok, then
\* set_library and set_standby(false): the mode field is the code
\* diagnostics() wrote, not 5
C28_Witness ==
    /\ pc = "idle"
    /\ dev = "Drv2605Erm"
    /\ ReturnedOk(1, "config", <<>>)
    /\ ReturnedOk(2, "set_library", <<6>>)
    /\ ReturnedOk(3, "set_standby", <<0>>)
    /\ regs0[1] % 8 = 5
    /\ regs[1] % 8 = log[5].bytes[2] % 8
    /\ regs[1] % 8 # 5

---------------------------------------------------------------------------
(* C29 *)

\* the calls so far are calls of set_library and set_high_impedance_state
\* that have all returned Ok
Register3CallsDone ==
    /\ pc = "idle"
    /\ hist # <<>>
    /\ \A k \in 1..Len(hist) :
        /\ hist[k].op \in {"set_library", "set_high_impedance_state"}
        /\ hist[k].res = OkResult

\* the argument of the last call of op so far, and d when there is none
LastArg(op, d) ==
    LET K == {k \in 1..Len(hist) : hist[k].op = op}
    IN  IF K = {} THEN d
        ELSE hist[CHOOSE k \in K : \A j \in K : j <= k].arg[1]

\* C29: on an ERM handle, after set_library and set_high_impedance_state
\* calls one after the other in any order, bits 2..0 of register 0x03 hold the
\* argument of the last set_library, bit 4 the argument of the last
\* set_high_impedance_state (each what the device held if no such call was
\* made), and bits 7..5 and 3 what the device held; each call writes back the
\* byte it read with only its own field changed
C29_Register3Shared ==
    /\ Register3CallsDone =>
        /\ dev = "Drv2605Erm" => regs[3] % 8 = LastArg("set_library", regs0[3] % 8)
        /\ BitOf(regs[3], 4) = LastArg("set_high_impedance_state", BitOf(regs0[3], 4))
        /\ \A b \in {3, 5, 6, 7} : BitOf(regs[3], b) = BitOf(regs0[3], b)
    /\ \A k \in 1..Len(hist) :
        (hist[k].op \in {"set_library", "set_high_impedance_state"}
                /\ hist[k].res = OkResult) =>
            LET L == LogOf(k) IN
            /\ Len(L) = 2
            /\ IsRead(L[1], 3)
            /\ IsWrite(L[2], 3)
            /\ L[2].bytes[2] = IF hist[k].op = "set_library"
                               THEN WithLow3(L[1].rd[1], hist[k].arg[1])
                               ELSE WithBit(L[1].rd[1], 4, hist[k].arg[1])

\* set_library(6), set_high_impedance_state(true), set_library(3) on a
\* register that held 0xE8: it holds 0xFB
C29_Witness ==
    /\ pc = "idle"
    /\ ReturnedOk(1, "set_library", <<6>>)
    /\ ReturnedOk(2, "set_high_impedance_state", <<1>>)
    /\ ReturnedOk(3, "set_library", <<3>>)
    /\ regs0[3] = 232
    /\ regs[3] = 251

---------------------------------------------------------------------------
(* C30 *)

\* the delay the k-th call encodes, or -1 when it encodes none
DelayOf(k) ==
    CASE hist[k].op = "new_wait_time" -> hist[k].arg[1]
      [] hist[k].op = "u8_from" /\ hist[k].arg[1] = 1 -> hist[k].arg[2]
      [] OTHER -> -1

\* C30: for every n in 0..255, WaveformReg::new_wait_time(n) and the byte made
\* from Effect::Delays(n) are both 0x80 + (n mod 128), the WAIT bit set; so
\* the two encoders agree on every n, and a delay n >= 128 is not rejected but
\* gets the byte of the delay n - 128
C30_DelayEncodersAgree ==
    /\ \A k \in 1..Len(hist) :
        DelayOf(k) >= 0 =>
            /\ hist[k].res.kind = "u8"
            /\ hist[k].res.val = 128 + (DelayOf(k) % 128)
            /\ BitOf(hist[k].res.val, 7) = 1
    /\ \A j, k \in 1..Len(hist) :
        (DelayOf(j) >= 0 /\ DelayOf(k) >= 0) =>
            /\ DelayOf(j) = DelayOf(k) => hist[j].res.val = hist[k].res.val
            /\ DelayOf(j) = DelayOf(k) + 128 => hist[j].res.val = hist[k].res.val

\* both encoders made 0xC8 of the delay 200 and of the delay 72
C30_Witness ==
    /\ Len(hist) = 4
    /\ hist[1].op = "new_wait_time" /\ hist[1].arg = <<200>>
    /\ hist[2].op = "u8_from" /\ hist[2].arg = <<1, 200>>
    /\ hist[3].op = "new_wait_time" /\ hist[3].arg = <<72>>
    /\ hist[4].op = "u8_from" /\ hist[4].arg = <<1, 72>>
    /\ \A k \in 1..4 : hist[k].res.val = 200

=============================================================================
